---- MODULE Spec2Model ----
(***************************************************************************)
(* A model of rsxiv's streaming deserialization of the arXiv API response:  *)
(* the token reader with its one-slot pushback (src/src/xml.rs), the feed   *)
(* cursor ResponseReader (src/src/response/xml.rs) and the serde bridge     *)
(* (src/src/de/de_impl.rs, src/src/de.rs).                                  *)
(*                                                                         *)
(* The input is a sequence of Start/End/Empty events, which is what         *)
(* Reader::read_inner leaves of the quick_xml event stream.  The text of an *)
(* element is carried by its Start event, the `term` attribute of an empty  *)
(* element by its Empty event.                                              *)
(***************************************************************************)
EXTENDS Integers, Sequences, FiniteSets, TLC

\* ------------------------------------------------------------------ bounds
\* Valid records per feed, categories per record, authors per record.
MaxEntries == 2
MaxCat == 1
MaxAuth == 2

\* ------------------------------------------------------------------ values
\* A text: `pre` is the URL prefix of an id ("" for every other text), and
\* (r, f, i) names the i-th tag `f` of the r-th entry element of the feed.
Val(r, f, i) == [pre |-> "", r |-> r, f |-> f, i |-> i]
NoVal == Val(0, "", 0)
\* What a visitor receives through visit_none.
NoneVal == Val(0, "None", 0)
Url(prefix, r) == [pre |-> prefix, r |-> r, f |-> "id", i |-> 1]

\* The two URL prefixes next_id tells apart, and one it does not know.
ErrorPrefix == "http://arxiv.org/api/errors#"
AbsPrefix == "http://arxiv.org/abs/"
OtherPrefix == "http://arxiv.org/pdf/"

\* ------------------------------------------------------------------ events
Start(n, t) == [k |-> "Start", n |-> n, t |-> t]
End(n) == [k |-> "End", n |-> n, t |-> NoVal]
Empty(n, t) == [k |-> "Empty", n |-> n, t |-> t]
\* Option<Event>::None, and the Eof of the tokenizer.
NoEvent == [k |-> "None", n |-> "", t |-> NoVal]

Elem(n, t) == <<Start(n, t), End(n)>>

RECURSIVE Flatten(_)
Flatten(ss) == IF ss = << >> THEN << >> ELSE Head(ss) \o Flatten(Tail(ss))

\* ------------------------------------------------------------------ feeds
\* A record descriptor: how many categories and authors the entry holds, which
\* of the optional tags it holds, which of the mandatory tags it lacks ("term"
\* for a primary_category tag without term attribute), and what its id tag is
\* ("abs": an article URL, "err": an error URL, "errbare": an error URL in an
\* entry without summary tag, "bad": a URL with another prefix, "none": no id
\* tag at all).
OptTags == {"arxiv:comment", "arxiv:journal_ref", "arxiv:doi"}
MandatoryTags == {"title", "updated", "summary", "published", "arxiv:primary_category"}

Descriptors ==
    [id : {"abs"}, ncat : 0..MaxCat, nauth : 0..MaxAuth, opt : SUBSET OptTags,
     miss : {{}}]

FullRecord ==
    [id |-> "abs", ncat |-> MaxCat, nauth |-> MaxAuth, opt |-> OptTags, miss |-> {}]

\* The pseudo-record of an API error, the same without its summary tag, and an
\* entry element without id tag.
ErrorRecord == [FullRecord EXCEPT !.id = "err", !.ncat = 0, !.nauth = 0, !.opt = {}]
BareErrorRecord == [ErrorRecord EXCEPT !.id = "errbare"]
NoIdRecord == [FullRecord EXCEPT !.id = "none"]

\* A record whose id has a prefix next_id does not know, and a record that lacks
\* the mandatory tag t (the term attribute for t = "term").
BadIdRecord == [FullRecord EXCEPT !.id = "bad"]
RecordWithout(t) == [FullRecord EXCEPT !.miss = {t}]

\* Every second author carries an affiliation.
HasAffiliation(a) == a % 2 = 0

AuthorTokens(r, a) ==
    <<Start("author", NoVal)>>
    \o Elem("name", Val(r, "name", a))
    \o (IF HasAffiliation(a) THEN Elem("affiliation", Val(r, "affiliation", a)) ELSE << >>)
    \o <<End("author")>>

OptElem(d, r, n) == IF n \in d.opt THEN Elem(n, Val(r, n, 1)) ELSE << >>
MandatoryElem(d, r, n) == IF n \in d.miss THEN << >> ELSE Elem(n, Val(r, n, 1))

IdPrefix(d) ==
    CASE d.id = "abs" -> AbsPrefix
      [] d.id = "bad" -> OtherPrefix
      [] OTHER -> ErrorPrefix

\* The entry element number r of the feed, its tags in the order of the schema:
\* id, title, updated, (link,) summary, category*, published, comment?,
\* primary_category, journal_ref?, author*, doi?.
EntryTokens(d, r) ==
    <<Start("entry", NoVal)>>
    \o (IF d.id = "none" THEN << >> ELSE Elem("id", Url(IdPrefix(d), r)))
    \o MandatoryElem(d, r, "title")
    \o MandatoryElem(d, r, "updated")
    \o <<Empty("link", NoVal)>>
    \o (IF d.id = "errbare" THEN << >> ELSE MandatoryElem(d, r, "summary"))
    \o [c \in 1..d.ncat |-> Empty("category", Val(r, "category", c))]
    \o MandatoryElem(d, r, "published")
    \o OptElem(d, r, "arxiv:comment")
    \o (IF "arxiv:primary_category" \in d.miss THEN << >>
        ELSE <<Empty("arxiv:primary_category",
                     IF "term" \in d.miss THEN NoVal
                     ELSE Val(r, "arxiv:primary_category", 1))>>)
    \o OptElem(d, r, "arxiv:journal_ref")
    \o Flatten([a \in 1..d.nauth |-> AuthorTokens(r, a)])
    \o OptElem(d, r, "arxiv:doi")
    \o <<End("entry")>>

\* The tags of the header ResponseReader::init reads, in the order it reads them.
HeaderTags ==
    <<"updated", "opensearch:totalResults", "opensearch:startIndex",
      "opensearch:itemsPerPage">>
PaginationTags == {HeaderTags[i] : i \in 2..Len(HeaderTags)}

\* A header descriptor: which of the tags the header lacks, whether the text
\* of its updated tag is a date-time of RFC 3339, and the text of each
\* pagination tag, a sequence of characters.
GoodHead ==
    [miss |-> {}, date |-> TRUE,
     text |-> [t \in PaginationTags |->
                  CASE t = "opensearch:totalResults" -> <<"7", "4", "3", "2">>
                    [] t = "opensearch:startIndex" -> <<"0">>
                    [] OTHER -> <<"+", "1", "0">>]]

\* The text of a header updated tag that is no date-time.
BadDate == Val(0, "updated", 0)

\* The header of the feed, which ResponseReader::init reads.
HeadTokens(h) ==
    <<Start("feed", NoVal)>>
    \o Elem("id", Url("feed", 0))
    \o Elem("title", Val(0, "title", 1))
    \o (IF "updated" \in h.miss THEN << >>
        ELSE Elem("updated", IF h.date THEN Val(0, "updated", 1) ELSE BadDate))
    \o Flatten([i \in 1..(Len(HeaderTags) - 1) |->
            IF HeaderTags[i + 1] \in h.miss THEN << >>
            ELSE Elem(HeaderTags[i + 1], h.text[HeaderTags[i + 1]])])

HeaderTokens == HeadTokens(GoodHead)

DocTokens(h, ds) ==
    HeadTokens(h)
    \o Flatten([r \in 1..Len(ds) |-> EntryTokens(ds[r], r)])
    \o <<End("feed")>>

FeedTokens(ds) == DocTokens(GoodHead, ds)

\* ------------------------------------------------------------------ state
VARIABLES
    feed,       \* the record descriptors the input was built from
    head,       \* the header descriptor the input was built from
    pagination, \* the Pagination ResponseReader::init returned
    plan,       \* a client of the ResponseReader: the one accessor it calls, or "any"
    ident,      \* a client of ArticleId: its input and what the calls returned
    query,      \* a Query and what the last call on it returned
    xml,        \* Reader.reader: the events of the input
    pos,        \* Reader.reader: how many events the tokenizer has produced
    peeked,     \* Reader.peeked
    reads,      \* calls of Reader::read, read_inner and read_text by this from_xml
    shape,      \* what the target asks ResponseDeserializer for
    fields,     \* the `fields` deserialize_struct receives from the record type
    authorAs,   \* what the target's author type asks AuthorDeserializer for
    pc,         \* which handler the target's visitor calls next
    id,         \* EntryMapAccess.id
    idx,        \* EntryMapAccess.idx
    aidx,       \* AuthorDeserializer.idx
    keys,       \* the keys EntryMapAccess has offered for the current record
    calls,      \* the accessor calls since the last next_id, with what they returned
    cur,        \* the values the visitor of the current record has received
    entryNo,    \* the entry element the current record's id was read from
    out,        \* the elements the visitor of the list has received
    val,        \* deserialize_option: the result of visit_some
    result,     \* what the decode returned
    run,        \* from_xml calls on this input so far
    first       \* the outcome of the first from_xml call

vars == <<feed, head, pagination, plan, ident, query, xml, pos, peeked, reads, shape, fields, authorAs, pc, id, idx, aidx,
          keys, calls, cur, entryNo, out, val, result, run, first>>

\* No ArticleId client and no Query: the specifications of the decode hold
\* these two fixed.
NoIdent == [op |-> "none"]
NoQuery == [op |-> "none"]

\* ------------------------------------------------------------------ errors
Err(kind, tag, v) == [kind |-> kind, tag |-> tag, v |-> v]
NoErr == Err("", "", NoVal)
MissingTag(tag) == Err("MissingTag", tag, NoVal)

\* ------------------------------------------------------------------ Reader
\* F applied to the value of e, with e evaluated once.
Let(e, F(_)) == CHOOSE y \in {F(x) : x \in {e}} : TRUE

\* Reader::read_inner at tokenizer position p.
ReadInner(p) ==
    IF p < Len(xml) THEN [ev |-> xml[p + 1], pos |-> p + 1]
    ELSE [ev |-> NoEvent, pos |-> p]

\* A read that does not look at the pushed-back token; C18 tells it from Read.
ReadPastPeeked(p, pk) == ReadInner(p)

\* Reader::read.
Read(p, pk) ==
    IF pk # NoEvent THEN [ev |-> pk, pos |-> p] ELSE ReadInner(p)

\* A matcher closure accepts the events of one kind and name; a halt closure
\* is the set of (kind, name) it returns true for.
Tag(k, n) == [k |-> k, n |-> n]
Matches(m, ev) == Tag(ev.k, ev.n) = m
Halts(h, ev) == Tag(ev.k, ev.n) \in h

\* The calls of Reader::read, Reader::read_inner and Reader::read_text.
NoCalls == [read |-> 0, inner |-> 0, text |-> 0]
Plus(a, b) ==
    [read |-> a.read + b.read, inner |-> a.inner + b.inner, text |-> a.text + b.text]

\* A halt that hands the token back to the tokenizer instead of keeping it in
\* `peeked`, so that the next scan takes it again; C19 tells it from NotFound.
NotFoundRewound(p, pk) ==
    [found |-> FALSE, ev |-> NoEvent, pos |-> IF pk # NoEvent THEN p - 1 ELSE p,
     peeked |-> NoEvent, n |-> NoCalls]

\* A halt that consumes the token it stopped on; C33 tells it from NotFound.
NotFoundDropped(p, pk) ==
    [found |-> FALSE, ev |-> NoEvent, pos |-> p, peeked |-> NoEvent, n |-> NoCalls]

\* What find_before returns, with the reader it leaves behind; n is the
\* calls of Reader::read, read_inner and read_text it took.
Found(ev, p) == [found |-> TRUE, ev |-> ev, pos |-> p, peeked |-> NoEvent, n |-> NoCalls]
NotFound(p, pk) == [found |-> FALSE, ev |-> NoEvent, pos |-> p, peeked |-> pk, n |-> NoCalls]

\* The result r after k more calls.
Calls(r, k) == [r EXCEPT !.n = Plus(@, k)]

\* A loop that asks the matcher before the halt closure; C32 tells it from
\* FindLoop.
RECURSIVE FindLoopMatchFirst(_, _, _, _)
FindLoopMatchFirst(current, p, m, h) ==
    IF Matches(m, current) THEN Found(current, p)
    ELSE IF Halts(h, current) THEN NotFound(p, current)
    ELSE IF p >= Len(xml) THEN NotFound(p, NoEvent)
    ELSE FindLoopMatchFirst(xml[p + 1], p + 1, m, h)

\* The loop of Reader::find_before, with `current` read and the tokenizer at p;
\* read_inner gives xml[p + 1] and leaves the tokenizer at p + 1, or gives None.
RECURSIVE FindLoop(_, _, _, _)
FindLoop(current, p, m, h) ==
    IF Halts(h, current) THEN NotFound(p, current)
    ELSE IF Matches(m, current) THEN Found(current, p)
    ELSE IF p >= Len(xml) THEN NotFound(p, NoEvent)
    ELSE FindLoop(xml[p + 1], p + 1, m, h)

\* The calls a find_before made that started with the tokenizer at p and left
\* s: one read, one read_inner for every event the tokenizer produced, and one
\* read_inner that met the end of the input.
ReadCalls(p, s) ==
    [read |-> 1,
     inner |-> (s.pos - p) + (IF ~s.found /\ s.peeked = NoEvent THEN 1 ELSE 0),
     text |-> 0]

\* A find_before that starts with read_inner, and so does not drain `peeked`
\* before its halt branch assigns it; C34 tells it from FindBefore.
FindBeforeFromTokenizer(p, pk, m, h) ==
    Let(ReadInner(p), LAMBDA r :
        Let(IF r.ev = NoEvent THEN NotFound(r.pos, NoEvent)
            ELSE FindLoop(r.ev, r.pos, m, h),
            LAMBDA s : Calls(s, ReadCalls(p, s))))

\* Reader::find_before.
FindBefore(p, pk, m, h) ==
    Let(Read(p, pk), LAMBDA r :
        Let(IF r.ev = NoEvent THEN NotFound(r.pos, NoEvent)
            ELSE FindLoop(r.ev, r.pos, m, h),
            LAMBDA s : Calls(s, ReadCalls(p, s))))

\* quick_xml's read_to_end: the position after the End event that closes the
\* element `n` entered at depth 0, or 0 when the input ends first.
RECURSIVE ReadToEnd(_, _, _)
ReadToEnd(p, n, depth) ==
    IF p >= Len(xml) THEN 0
    ELSE LET ev == xml[p + 1]
         IN  IF ev.k = "End" /\ ev.n = n
             THEN IF depth = 0 THEN p + 1 ELSE ReadToEnd(p + 1, n, depth - 1)
             ELSE IF ev.k = "Start" /\ ev.n = n THEN ReadToEnd(p + 1, n, depth + 1)
             ELSE ReadToEnd(p + 1, n, depth)

\* What an accessor returns, with the reader it leaves behind and the number n
\* of calls of Reader::read, read_inner and read_text it took.
Some(v, p) ==
    [res |-> "some", v |-> v, err |-> NoErr, pos |-> p, peeked |-> NoEvent, n |-> NoCalls]
None(p, pk) ==
    [res |-> "none", v |-> NoneVal, err |-> NoErr, pos |-> p, peeked |-> pk, n |-> NoCalls]
Fail(e, p, pk) ==
    [res |-> "err", v |-> NoVal, err |-> e, pos |-> p, peeked |-> pk, n |-> NoCalls]

\* The tokenizer's read_to_end after a find_before that returned the Start
\* event `s`, and what it spans.
ReadRaw(s) ==
    Let(ReadToEnd(s.pos, s.ev.n, 0), LAMBDA e :
        Calls(IF e = 0 THEN Fail(Err("Xml", s.ev.n, NoVal), Len(xml), NoEvent)
              ELSE Some(s.ev.t, e), s.n))

\* Reader::read_text after a find_before that returned the Start event `s`.
ReadText(s) == Calls(ReadRaw(s), [NoCalls EXCEPT !.text = 1])

NoHalt == {}

\* A find_matching_tag that halts at the end of an entry; C17 tells it from
\* FindMatchingTag.
FindMatchingTagInEntry(p, pk, tag) ==
    FindBefore(p, pk, Tag("Start", tag), {Tag("End", "entry")})

\* Reader::find_matching_tag.
FindMatchingTag(p, pk, tag) == FindBefore(p, pk, Tag("Start", tag), NoHalt)

\* Reader::find_text_matching_tag and Reader::find_raw_matching_tag.
FindTextMatchingTag(p, pk, tag) ==
    Let(FindMatchingTag(p, pk, tag), LAMBDA s :
        IF s.found THEN ReadText(s) ELSE Calls(None(s.pos, s.peeked), s.n))

FindRawMatchingTag(p, pk, tag) ==
    Let(FindMatchingTag(p, pk, tag), LAMBDA s :
        IF s.found THEN ReadRaw(s) ELSE Calls(None(s.pos, s.peeked), s.n))

\* ---------------------------------------------------------- ResponseReader
\* A starts_with that knows the article prefix only; C6 tells it from StartsWith.
StartsWithAbsOnly(url, prefix) == url.pre = prefix /\ prefix = AbsPrefix

\* A strip_prefix that returns the whole URL; C13 tells it from StripPrefix.
KeepPrefix(url) == url

\* url.starts_with(prefix) and url.strip_prefix(prefix).
StartsWith(url, prefix) == url.pre = prefix
StripPrefix(url) == [url EXCEPT !.pre = ""]

\* ResponseReader::next_id.
NextId(p, pk) ==
    Let(FindRawMatchingTag(p, pk, "id"), LAMBDA u :
        IF u.res = "some"
        THEN IF StartsWith(u.v, ErrorPrefix)
             THEN Let(FindTextMatchingTag(u.pos, u.peeked, "summary"), LAMBDA s :
                      Calls(IF s.res = "some"
                            THEN Fail(Err("Arxiv", "", s.v), s.pos, s.peeked)
                            ELSE IF s.res = "none"
                            THEN Fail(Err("InvalidError", "summary", NoVal),
                                      s.pos, s.peeked)
                            ELSE s,
                            Plus(u.n, IF s.res \in {"some", "none"} THEN s.n ELSE NoCalls)))
             ELSE Calls(IF StartsWith(u.v, AbsPrefix)
                        THEN Some(StripPrefix(u.v), u.pos)
                        ELSE Fail(Err("InvalidHeader", "id", u.v), u.pos, u.peeked),
                        u.n)
        ELSE u)

\* A halt closure that stops at the end of the feed only; C11 tells it from HaltEnd.
HaltEndOfFeed(limit) == {Tag("End", "feed")}

\* The halt closures of the accessors.
HaltEnd(limit) == {Tag("End", limit)}
HaltAuthor ==
    {Tag("Start", "arxiv:comment"), Tag("Start", "arxiv:doi"),
     Tag("Start", "arxiv:journal_ref"), Tag("Empty", "arxiv:primary_category"),
     Tag("End", "entry")}
\* The halt closure of next_doi without its End(entry) arm; C4 tells it from HaltDoi.
HaltDoiWithoutEntryEnd ==
    {Tag("Start", "arxiv:journal_ref"), Tag("Start", "arxiv:comment"),
     Tag("Empty", "arxiv:primary_category")}
HaltDoi ==
    {Tag("Start", "arxiv:journal_ref"), Tag("Start", "arxiv:comment"),
     Tag("Empty", "arxiv:primary_category"), Tag("End", "entry")}
HaltComment ==
    {Tag("Start", "arxiv:journal_ref"), Tag("Empty", "arxiv:primary_category"),
     Tag("End", "entry")}
HaltJournalRef == {Tag("Empty", "arxiv:primary_category"), Tag("End", "entry")}
HaltTerm == {Tag("End", "entry")}

\* and_not_missing.
AndNotMissing(r, tag) ==
    Let(r, LAMBDA x : IF x.res = "none"
                      THEN Calls(Fail(MissingTag(tag), x.pos, x.peeked), x.n) ELSE x)

\* The accessors that return the text of a Start tag found before a halt.
NextText(p, pk, name, h) ==
    Let(FindBefore(p, pk, Tag("Start", name), h), LAMBDA s :
        IF s.found THEN ReadText(s) ELSE Calls(None(s.pos, s.peeked), s.n))

\* ResponseReader::next_tag_with_name_limit.
NextTagWithNameLimit(p, pk, name, limit) == NextText(p, pk, name, HaltEnd(limit))

NextTitle(p, pk) == AndNotMissing(NextTagWithNameLimit(p, pk, "title", "entry"), "title")
NextUpdated(p, pk) == AndNotMissing(NextTagWithNameLimit(p, pk, "updated", "entry"), "updated")
NextSummary(p, pk) == AndNotMissing(NextTagWithNameLimit(p, pk, "summary", "entry"), "summary")
NextPublished(p, pk) ==
    AndNotMissing(NextTagWithNameLimit(p, pk, "published", "entry"), "published")
NextAuthorName(p, pk) == AndNotMissing(NextTagWithNameLimit(p, pk, "name", "author"), "name")
\* A next_author_affiliation bounded by the entry; C15 tells it from
\* NextAuthorAffiliation.
NextAffiliationInEntry(p, pk) == NextTagWithNameLimit(p, pk, "affiliation", "entry")
NextAuthorAffiliation(p, pk) == NextTagWithNameLimit(p, pk, "affiliation", "author")
NextDoi(p, pk) == NextText(p, pk, "arxiv:doi", HaltDoi)
NextComment(p, pk) == NextText(p, pk, "arxiv:comment", HaltComment)
NextJournalRef(p, pk) == NextText(p, pk, "arxiv:journal_ref", HaltJournalRef)

\* ResponseReader::next_author: "some" stands for Ok(true), "none" for Ok(false).
NextAuthor(p, pk) ==
    Let(FindBefore(p, pk, Tag("Start", "author"), HaltAuthor), LAMBDA s :
        Calls(IF s.found THEN Some(NoVal, s.pos) ELSE None(s.pos, s.peeked), s.n))

\* ResponseReader::next_term: the value is the Term, that is the Empty event.
NextTerm(p, pk, name) ==
    Let(FindBefore(p, pk, Tag("Empty", name), HaltTerm), LAMBDA s :
        Calls(IF s.found THEN Some(s.ev.t, s.pos) ELSE None(s.pos, s.peeked), s.n))

NextPrimaryCategory(p, pk) ==
    AndNotMissing(NextTerm(p, pk, "arxiv:primary_category"), "arxiv:primary_category")
NextCategory(p, pk) == NextTerm(p, pk, "category")

\* Term::get on what next_term returned.
TermGet(r) ==
    Let(r, LAMBDA x : IF x.res = "some" /\ x.v = NoVal
                      THEN Calls(Fail(Err("MissingTerm", "", NoVal), x.pos, x.peeked), x.n)
                      ELSE x)

\* DateTime::parse_from_rfc3339 accepts the text.
IsRfc3339(v) == v # BadDate

\* ResponseReader::read_updated.
ReadUpdated(p, pk) ==
    Let(AndNotMissing(FindTextMatchingTag(p, pk, "updated"), "updated"), LAMBDA x :
        IF x.res = "some" /\ ~IsRfc3339(x.v)
        THEN Calls(Fail(Err("Chrono", "updated", NoVal), x.pos, x.peeked), x.n)
        ELSE x)

\* str::parse::<u64>: the number the characters spell, -1 for an Err.  An
\* optional "+" and then one decimal digit or more.
Digits == <<"0", "1", "2", "3", "4", "5", "6", "7", "8", "9">>
IsDigit(c) == \E i \in 1..Len(Digits) : Digits[i] = c
DigitValue(c) == (CHOOSE i \in 1..Len(Digits) : Digits[i] = c) - 1

RECURSIVE DigitsValue(_)
DigitsValue(cs) ==
    IF cs = << >> THEN 0
    ELSE DigitsValue(SubSeq(cs, 1, Len(cs) - 1)) * 10 + DigitValue(cs[Len(cs)])

\* A parse that drops a sign of either kind; C14 tells it from ParseU64.
ParseIgnoringSign(cs) ==
    LET ds == IF cs # << >> /\ cs[1] \in {"+", "-"} THEN Tail(cs) ELSE cs
    IN  IF ds = << >> \/ \E i \in 1..Len(ds) : ~IsDigit(ds[i]) THEN -1
        ELSE DigitsValue(ds)

ParseU64(cs) ==
    LET ds == IF cs # << >> /\ cs[1] = "+" THEN Tail(cs) ELSE cs
    IN  IF ds = << >> \/ \E i \in 1..Len(ds) : ~IsDigit(ds[i]) THEN -1
        ELSE DigitsValue(ds)

InvalidPagination ==
    Err("InvalidHeader", "expected pagination to be non-negative integer", NoVal)

\* ResponseReader::read_tag_u64.
ReadTagU64(p, pk, name) ==
    Let(AndNotMissing(FindTextMatchingTag(p, pk, name), name), LAMBDA x :
        IF x.res # "some" THEN x
        ELSE IF ParseU64(x.v) < 0
        THEN Calls(Fail(InvalidPagination, x.pos, x.peeked), x.n)
        ELSE [x EXCEPT !.v = ParseU64(x.v)])

Pagination(t, s, i) == [total_results |-> t, start_index |-> s, items_per_page |-> i]
NoPagination == Pagination(-1, -1, -1)

\* ResponseReader::read_pagination.
ReadPagination(p, pk) ==
    Let(ReadTagU64(p, pk, "opensearch:totalResults"), LAMBDA t :
        IF t.res # "some" THEN t
        ELSE Let(ReadTagU64(t.pos, t.peeked, "opensearch:startIndex"), LAMBDA s :
            IF s.res # "some" THEN Calls(s, t.n)
            ELSE Let(ReadTagU64(s.pos, s.peeked, "opensearch:itemsPerPage"), LAMBDA i :
                Calls(IF i.res # "some" THEN i
                      ELSE [i EXCEPT !.v = Pagination(t.v, s.v, i.v)],
                      Plus(t.n, s.n)))))

\* ResponseReader::init: the Pagination, and the reader after read_updated and
\* read_pagination.
ResponseReaderInit ==
    Let(ReadUpdated(0, NoEvent), LAMBDA u :
        IF u.res # "some" THEN u ELSE Calls(ReadPagination(u.pos, u.peeked), u.n))

\* ------------------------------------------------------------ Shape Adapter
ALLOWED_FIELDS ==
    <<"id", "title", "updated", "summary", "categories", "published", "comment",
      "primary_category", "journal_ref", "authors", "doi">>

NumFields == 11

FieldNames == {ALLOWED_FIELDS[i] : i \in 1..NumFields}

\* fields.contains(&name).
Contains(fs, name) == \E i \in 1..Len(fs) : fs[i] = name

Running == [st |-> "running", err |-> NoErr]
Ok == [st |-> "ok", err |-> NoErr]
Failed(e) == [st |-> "err", err |-> e]

TrailingEntries == Err("TrailingEntries", "", NoVal)
IdAlreadyKey == Err("Custom", "id tag was already deserialized as the map key", NoVal)

\* The record a visitor starts from: nothing received yet.
NoFields == [n \in FieldNames |-> << >>]

SetReader(r) == pos' = r.pos /\ peeked' = r.peeked /\ reads' = Plus(reads, r.n)

\* visit_map on a new EntryMapAccess { reader, id, fields, idx: 0 }.
EnterEntry(i, n) ==
    /\ id' = i
    /\ entryNo' = n
    /\ idx' = 0
    /\ keys' = << >>
    /\ calls' = << >>
    /\ cur' = NoFields
    /\ pc' = "entry_key"

\* An error handling that drops the record and goes on with the list; C12 tells
\* it from Abort.
AbortRecordOnly(e) == pc' = "list" /\ UNCHANGED <<val, result>>

\* An error returned inside a record: `?` carries it up to from_xml, except
\* that deserialize_option keeps it in `val` and calls next_id once more.
Abort(e) ==
    IF shape = "option"
    THEN pc' = "opt_tail" /\ val' = Failed(e) /\ UNCHANGED result
    ELSE pc' = "done" /\ result' = Failed(e) /\ UNCHANGED val

\* The return of from_xml.
Return(res) == pc' = "done" /\ result' = res

\* SeqAccess for ResponseDeserializer: next_element_seed.
SeqNextElement ==
    /\ pc = "list" /\ shape = "seq"
    /\ \E r \in {NextId(pos, peeked)} :
           /\ SetReader(r)
           /\ IF r.res = "some"
              THEN /\ EnterEntry(r.v, r.v.r)
                   /\ UNCHANGED <<result, out>>
              ELSE /\ Return(IF r.res = "none" THEN Ok ELSE Failed(r.err))
                   /\ UNCHANGED <<id, entryNo, idx, keys, calls, cur, out>>
    /\ UNCHANGED <<feed, head, pagination, plan, ident, query, xml, shape, fields, authorAs, aidx, val, run, first>>

\* MapAccess for ResponseDeserializer: next_key_seed.  The key the visitor
\* receives from IdDeserializer opens an element of `out`.
MapNextKey ==
    /\ pc = "list" /\ shape = "map"
    /\ \E r \in {NextId(pos, peeked)} :
           /\ SetReader(r)
           /\ IF r.res = "some"
              THEN /\ pc' = "map_value"
                   /\ entryNo' = r.v.r
                   /\ out' = Append(out, [key |-> r.v, no |-> r.v.r, rec |-> NoFields,
                                      keys |-> << >>, done |-> FALSE])
                   /\ keys' = << >>
                   /\ calls' = << >>
                   /\ cur' = NoFields
                   /\ UNCHANGED result
              ELSE /\ Return(IF r.res = "none" THEN Ok ELSE Failed(r.err))
                   /\ UNCHANGED <<entryNo, out, keys, calls, cur>>
    /\ UNCHANGED <<feed, head, pagination, plan, ident, query, xml, shape, fields, authorAs, id, idx, aidx, val, run, first>>

\* A next_value_seed that reads the next id as SeqAccess::next_element_seed does
\* before it decodes the value; C10 tells it from MapNextValue.
MapNextValueAfterNextId ==
    /\ pc = "map_value"
    /\ \E r \in {NextId(pos, peeked)} : SetReader(r)
    /\ EnterEntry(NoVal, entryNo)
    /\ UNCHANGED <<feed, head, pagination, plan, ident, query, xml, shape, fields, authorAs, aidx, out, val,
                   result, run, first>>

\* MapAccess for ResponseDeserializer: next_value_seed.
MapNextValue ==
    /\ pc = "map_value"
    /\ EnterEntry(NoVal, entryNo)
    /\ UNCHANGED <<feed, head, pagination, plan, ident, query, xml, pos, peeked, reads, shape, fields, authorAs, aidx, out, val,
                   result, run, first>>

\* ResponseDeserializer::deserialize_option, up to visit_some or visit_none.
DeserializeOption ==
    /\ pc = "list" /\ shape = "option"
    /\ \E r \in {NextId(pos, peeked)} :
           /\ SetReader(r)
           /\ IF r.res = "some"
              THEN /\ EnterEntry(r.v, r.v.r)
                   /\ UNCHANGED result
              ELSE /\ Return(IF r.res = "none" THEN Ok ELSE Failed(r.err))
                   /\ UNCHANGED <<id, entryNo, idx, keys, calls, cur>>
    /\ UNCHANGED <<feed, head, pagination, plan, ident, query, xml, shape, fields, authorAs, aidx, out, val, run, first>>

\* ResponseDeserializer::deserialize_option after visit_some returned `val`.
OptionTail ==
    /\ pc = "opt_tail"
    /\ \E r \in {NextId(pos, peeked)} :
           /\ SetReader(r)
           /\ Return(IF r.res = "err" THEN Failed(r.err)
                     ELSE IF r.res = "some" THEN Failed(TrailingEntries)
                     ELSE val)
    /\ UNCHANGED <<feed, head, pagination, plan, ident, query, xml, shape, fields, authorAs, id, idx, aidx, keys, calls,
                   cur, entryNo, out, val, run, first>>

\* A loop that calls next_id on the reader as it was when the loop began;
\* C20 tells it from DeserializeIgnoredAny.
IgnoredAnyFromStart ==
    /\ pc = "list" /\ shape = "ignore"
    /\ \E r \in {NextId(pos, peeked)} :
           IF r.res = "some"
           THEN UNCHANGED <<pos, peeked, reads, pc, result>>
           ELSE SetReader(r) /\ Return(IF r.res = "none" THEN Ok ELSE Failed(r.err))
    /\ UNCHANGED <<feed, head, pagination, plan, ident, query, xml, shape, fields, authorAs, id, idx, aidx, keys, calls,
                   cur, entryNo, out, val, run, first>>

\* One turn of the loop of ResponseDeserializer::deserialize_ignored_any.
DeserializeIgnoredAny ==
    /\ pc = "list" /\ shape = "ignore"
    /\ \E r \in {NextId(pos, peeked)} :
           /\ SetReader(r)
           /\ IF r.res = "some"
              THEN UNCHANGED <<pc, result>>
              ELSE Return(IF r.res = "none" THEN Ok ELSE Failed(r.err))
    /\ UNCHANGED <<feed, head, pagination, plan, ident, query, xml, shape, fields, authorAs, id, idx, aidx, keys, calls,
                   cur, entryNo, out, val, run, first>>

\* A next_key_seed without the loop that skips; C5 tells it from SkipUnrequested.
NoSkip(fs, i) == i

\* The loop of EntryMapAccess::next_key_seed: the first index from i on whose
\* name the target requests, or NumFields.
RECURSIVE SkipUnrequested(_, _)
SkipUnrequested(fs, i) ==
    IF i < NumFields /\ ~Contains(fs, ALLOWED_FIELDS[i + 1])
    THEN SkipUnrequested(fs, i + 1) ELSE i

\* The element the visitor of the list holds once the record's visitor is done.
Element(k) == [key |-> k, no |-> entryNo, rec |-> cur, keys |-> keys, done |-> TRUE]

\* MapAccess for EntryMapAccess: next_key_seed.
EntryNextKey ==
    /\ pc = "entry_key"
    /\ LET j == SkipUnrequested(fields, idx)
       IN  /\ idx' = j
           /\ IF j < NumFields
              THEN /\ keys' = Append(keys, ALLOWED_FIELDS[j + 1])
                   /\ pc' = "entry_value"
                   /\ UNCHANGED <<out, val>>
              ELSE /\ keys' = keys
                   /\ out' = IF shape = "map"
                             THEN [out EXCEPT ![Len(out)] = Element(@.key)]
                             ELSE Append(out, Element(NoVal))
                   /\ pc' = IF shape = "option" THEN "opt_tail" ELSE "list"
                   /\ val' = IF shape = "option" THEN Ok ELSE val
    /\ UNCHANGED <<feed, head, pagination, plan, ident, query, xml, pos, peeked, reads, shape, fields, authorAs, id, aidx, calls,
                   cur, entryNo, result, run, first>>

\* The accessor behind the StrTagDeserializer, StrTagOptDeserializer or
\* TermDeserializer that next_value_seed builds for index i.
Getter(i, p, pk) ==
    CASE i = 1 -> NextTitle(p, pk)
      [] i = 2 -> NextUpdated(p, pk)
      [] i = 3 -> NextSummary(p, pk)
      [] i = 5 -> NextPublished(p, pk)
      [] i = 6 -> NextComment(p, pk)
      [] i = 7 -> TermGet(NextPrimaryCategory(p, pk))
      [] i = 8 -> NextJournalRef(p, pk)
      [] i = 10 -> NextDoi(p, pk)

GetterName ==
    <<"next_title", "next_updated", "next_summary", "next_category", "next_published",
      "next_comment", "next_primary_category", "next_journal_ref", "next_author",
      "next_doi">>

\* An accessor call and the kind of its return: "some", "none" or "err".
Call(acc, r) == [acc |-> acc, res |-> r.res]

Deliver(name, v) == cur' = [cur EXCEPT ![name] = Append(@, v)]

\* An `id` arm that answers a taken id as an absent field; C9 tells it from IdArm.
IdArmAbsent(i) == IF i # NoVal THEN Some(i, pos) ELSE None(pos, peeked)

\* The `id` arm of next_value_seed: the id the EntryMapAccess holds, if any.
IdArm(i) == IF i # NoVal THEN Some(i, pos) ELSE Fail(IdAlreadyKey, pos, peeked)

\* MapAccess for EntryMapAccess: next_value_seed.
EntryNextValue ==
    /\ pc = "entry_value"
    /\ LET name == ALLOWED_FIELDS[idx + 1]
       IN  IF idx \in {4, 9}
           THEN /\ pc' = IF idx = 4 THEN "categories" ELSE "authors"
                /\ UNCHANGED <<pos, peeked, reads, idx, calls, cur, val, result>>
           ELSE \E r \in {IF idx = 0 THEN IdArm(id) ELSE Getter(idx, pos, peeked)} :
                    /\ IF idx = 0 THEN UNCHANGED <<pos, peeked, reads>> ELSE SetReader(r)
                    /\ calls' = IF idx = 0 THEN calls ELSE Append(calls, Call(GetterName[idx], r))
                    /\ idx' = idx + 1
                    /\ IF r.res = "err"
                       THEN Abort(r.err) /\ cur' = cur
                       ELSE /\ Deliver(name, r.v)
                            /\ pc' = "entry_key"
                            /\ UNCHANGED <<val, result>>
    /\ UNCHANGED <<feed, head, pagination, plan, ident, query, xml, shape, fields, authorAs, id, aidx, keys, entryNo, out,
                   run, first>>

\* SeqAccess for CategorySeqAccess: next_element_seed, called by a visitor that
\* collects every element; after None, next_value_seed returns.
CategoryNextElement ==
    /\ pc = "categories"
    /\ \E r \in {TermGet(NextCategory(pos, peeked))} :
           /\ SetReader(r)
           /\ calls' = Append(calls, Call("next_category", r))
           /\ IF r.res = "some"
              THEN Deliver("categories", r.v) /\ UNCHANGED <<pc, idx, val, result>>
              ELSE /\ idx' = idx + 1
                   /\ cur' = cur
                   /\ IF r.res = "err" THEN Abort(r.err)
                      ELSE pc' = "entry_key" /\ UNCHANGED <<val, result>>
    /\ UNCHANGED <<feed, head, pagination, plan, ident, query, xml, shape, fields, authorAs, id, aidx, keys, entryNo, out,
                   run, first>>

\* SeqAccess for AuthorSeqAccess: next_element_seed, up to the AuthorDeserializer
\* it hands to the seed.
AuthorNextElement ==
    /\ pc = "authors"
    /\ \E r \in {NextAuthor(pos, peeked)} :
           /\ SetReader(r)
           /\ calls' = Append(calls, Call("next_author", r))
           /\ IF r.res = "some"
              THEN pc' = "author" /\ aidx' = 0 /\ idx' = idx
              ELSE pc' = "entry_key" /\ aidx' = aidx /\ idx' = idx + 1
    /\ UNCHANGED <<feed, head, pagination, plan, ident, query, xml, shape, fields, authorAs, id, keys, cur, entryNo, out,
                   val, result, run, first>>

\* AuthorDeserializer::deserialize_str, which an author type that is a name asks for.
AuthorDeserializeStr ==
    /\ pc = "author" /\ authorAs = "str"
    /\ \E r \in {NextAuthorName(pos, peeked)} :
           /\ SetReader(r)
           /\ calls' = Append(calls, Call("next_author_name", r))
           /\ IF r.res = "err"
              THEN Abort(r.err) /\ cur' = cur /\ idx' = idx + 1
              ELSE /\ Deliver("authors", r.v)
                   /\ pc' = "authors"
                   /\ UNCHANGED <<idx, val, result>>
    /\ UNCHANGED <<feed, head, pagination, plan, ident, query, xml, shape, fields, authorAs, id, aidx, keys, entryNo, out,
                   run, first>>

\* MapAccess for AuthorDeserializer: next_key_seed ("name", "affiliation", None).
AuthorNextKey ==
    /\ pc = "author" /\ authorAs = "map"
    /\ pc' = IF aidx < 2 THEN "author_value" ELSE "authors"
    /\ UNCHANGED <<feed, head, pagination, plan, ident, query, xml, pos, peeked, reads, shape, fields, authorAs, id, idx, aidx,
                   keys, calls, cur, entryNo, out, val, result, run, first>>

\* MapAccess for AuthorDeserializer: next_value_seed.
AuthorNextValue ==
    /\ pc = "author_value"
    /\ \E r \in {IF aidx = 0 THEN NextAuthorName(pos, peeked)
                ELSE NextAuthorAffiliation(pos, peeked)} :
           /\ SetReader(r)
           /\ calls' = Append(calls, Call(IF aidx = 0 THEN "next_author_name"
                                          ELSE "next_author_affiliation", r))
           /\ aidx' = aidx + 1
           /\ IF r.res = "err"
              THEN Abort(r.err) /\ cur' = cur /\ idx' = idx + 1
              ELSE /\ Deliver("authors", r.v)
                   /\ pc' = "author"
                   /\ UNCHANGED <<idx, val, result>>
    /\ UNCHANGED <<feed, head, pagination, plan, ident, query, xml, shape, fields, authorAs, id, keys, entryNo, out,
                   run, first>>

\* ------------------------------------------------------------------ inputs
InsertAt(ds, k, d) == SubSeq(ds, 1, k) \o <<d>> \o SubSeq(ds, k + 1, Len(ds))

\* The valid records of a feed: the first is any record of the schema, the
\* later ones hold every tag.
ValidRecords ==
    {<< >>} \cup
    {<<d>> \o [r \in 1..(n - 1) |-> FullRecord] : d \in Descriptors, n \in 1..MaxEntries}

\* The records an accessor fails on: an id of unexpected format, a mandatory
\* tag or the term attribute missing.
MalformedRecords == {BadIdRecord} \cup {RecordWithout(t) : t \in MandatoryTags \cup {"term"}}

\* One malformed record before, between or after records with every tag.
MalformedFeeds ==
    UNION {{InsertAt([r \in 1..n |-> FullRecord], k, x) :
               k \in 0..n, x \in MalformedRecords} : n \in 0..(MaxEntries - 1)}

\* A feed: valid records, and possibly one error pseudo-record or one entry
\* element without id among them, or one malformed record.
Feeds ==
    ValidRecords \cup
    UNION {{InsertAt(ds, k, x) : k \in 0..Len(ds), x \in {ErrorRecord, BareErrorRecord, NoIdRecord}} :
           ds \in ValidRecords}
    \cup MalformedFeeds

Target(fs, a) == [fields |-> fs, authorAs |-> a]

\* The record types of the crate's tests, documentation and example.
EntryTestQueryDe ==
    Target(<<"id", "updated", "published", "title", "summary", "authors", "doi",
             "comment", "journal_ref", "primary_category", "categories", "extra">>, "map")
EntryTestMalformed == Target(<<"authors", "comment">>, "str")
EntryDocTitle == Target(<<"title">>, "str")
EntryDocAuthors == Target(<<"authors">>, "str")
EntryExample == Target(<<"authors", "title">>, "str")

\* The complete Entry struct of the module documentation, with its Author
\* struct of name and affiliation.
EntryDocComplete ==
    Target(<<"id", "updated", "published", "title", "summary", "author", "doi", "comment",
             "journal_ref", "primary_category", "category">>, "map")

\* The same fields as EntryTestQueryDe, declared in the order of the feed.
EntryInOrder == Target(ALLOWED_FIELDS, "map")

Targets ==
    {EntryTestQueryDe, EntryInOrder, EntryTestMalformed, EntryDocTitle, EntryDocAuthors,
     EntryExample,
     Target(<<"doi", "id", "journal_ref", "primary_category", "authors">>, "map"),
     Target(<<"authors", "primary_category", "id">>, "str"),
     Target(<<"published", "categories">>, "str")}

\* A record type for every subset of the allowed fields, declared in the order
\* of the table and in the opposite order.
Reverse(fs) == [i \in 1..Len(fs) |-> fs[Len(fs) + 1 - i]]
InTableOrder(S) == SelectSeq(ALLOWED_FIELDS, LAMBDA n : n \in S)
SubsetTargets ==
    {Target(InTableOrder(S), "map") : S \in SUBSET FieldNames}
    \cup {Target(Reverse(InTableOrder(S)), "map") : S \in SUBSET FieldNames}

\* The feeds the subset targets decode: a record with every tag, and a record
\* with the mandatory tags only.
SparseRecord == [id |-> "abs", ncat |-> 0, nauth |-> 0, opt |-> {}, miss |-> {}]
SubsetFeeds == {<<FullRecord>>, <<SparseRecord>>}

\* serde::de::IgnoredAny as the list type asks for no record type.
NoTarget == Target(<< >>, "str")

Shapes == {"seq", "map", "option", "ignore"}

\* Response::from_xml up to T::deserialize: ResponseReader::init, and then the
\* visitor of the list type has called nothing yet.
FromXml(sh, tg) ==
    \E r \in {ResponseReaderInit} :
        /\ pos = r.pos
        /\ peeked = r.peeked
        /\ reads = r.n
        /\ pagination = (IF r.res = "some" THEN r.v ELSE NoPagination)
        /\ shape = sh
        /\ fields = tg.fields
        /\ authorAs = tg.authorAs
        /\ pc = IF r.res = "some" THEN "list" ELSE "done"
        /\ result = IF r.res = "some" THEN Running ELSE Failed(r.err)
        /\ id = NoVal
        /\ idx = 0
        /\ aidx = 0
        /\ keys = << >>
        /\ calls = << >>
        /\ cur = NoFields
        /\ entryNo = 0
        /\ out = << >>
        /\ val = Ok

Init ==
    /\ head = GoodHead
    /\ plan = ""
    /\ ident = NoIdent
    /\ query = NoQuery
    /\ \/ /\ feed \in Feeds
          /\ xml = FeedTokens(feed)
          /\ \E sh \in Shapes :
               \E tg \in (IF sh = "ignore" THEN {NoTarget} ELSE Targets) : FromXml(sh, tg)
       \/ /\ feed \in SubsetFeeds
          /\ xml = FeedTokens(feed)
          /\ \E tg \in SubsetTargets \cup {EntryDocComplete} : FromXml("seq", tg)
    /\ run = 1
    /\ first = [result |-> Running, out |-> << >>, reads |-> NoCalls]

\* A second Response::from_xml on the same bytes, as test_malfored_query does:
\* after the list of records, the map from identifier to the record without id.
FromXmlAgain ==
    /\ pc = "done" /\ run = 1 /\ shape = "seq"
    /\ run' = 2
    /\ first' = [result |-> result, out |-> out, reads |-> reads]
    /\ \E r \in {ResponseReaderInit} :
           /\ pos' = r.pos
           /\ peeked' = r.peeked
           /\ reads' = r.n
           /\ pagination' = (IF r.res = "some" THEN r.v ELSE NoPagination)
           /\ pc' = IF r.res = "some" THEN "list" ELSE "done"
           /\ result' = IF r.res = "some" THEN Running ELSE Failed(r.err)
    /\ shape' = "map"
    /\ fields' = SelectSeq(fields, LAMBDA n : n # "id")
    /\ id' = NoVal
    /\ idx' = 0
    /\ aidx' = 0
    /\ keys' = << >>
    /\ calls' = << >>
    /\ cur' = NoFields
    /\ entryNo' = 0
    /\ out' = << >>
    /\ val' = Ok
    /\ UNCHANGED <<feed, head, plan, ident, query, xml, authorAs>>

\* A second Response::from_xml on the same bytes into a record type that
\* declares one field less: the last one of the first type's.
FromXmlFewer ==
    /\ pc = "done" /\ run = 1 /\ shape = "seq" /\ fields # << >>
    /\ run' = 2
    /\ first' = [result |-> result, out |-> out, reads |-> reads]
    /\ \E r \in {ResponseReaderInit} :
           /\ pos' = r.pos
           /\ peeked' = r.peeked
           /\ reads' = r.n
           /\ pagination' = (IF r.res = "some" THEN r.v ELSE NoPagination)
           /\ pc' = IF r.res = "some" THEN "list" ELSE "done"
           /\ result' = IF r.res = "some" THEN Running ELSE Failed(r.err)
    /\ fields' = SubSeq(fields, 1, Len(fields) - 1)
    /\ id' = NoVal
    /\ idx' = 0
    /\ aidx' = 0
    /\ keys' = << >>
    /\ calls' = << >>
    /\ cur' = NoFields
    /\ entryNo' = 0
    /\ out' = << >>
    /\ val' = Ok
    /\ UNCHANGED <<feed, head, plan, ident, query, xml, shape, authorAs>>

Next ==
    \/ SeqNextElement
    \/ MapNextKey
    \/ MapNextValue
    \/ DeserializeOption
    \/ OptionTail
    \/ DeserializeIgnoredAny
    \/ EntryNextKey
    \/ EntryNextValue
    \/ CategoryNextElement
    \/ AuthorNextElement
    \/ AuthorDeserializeStr
    \/ AuthorNextKey
    \/ AuthorNextValue
    \/ FromXmlAgain
    \/ FromXmlFewer

Spec == Init /\ [][Next]_vars

\* ------------------------------------------------ a client of ResponseReader
\* The second specification drives the ResponseReader as its tests do: after
\* ResponseReader::init the client calls next_id and the accessors, in any
\* order (plan "any") or next_id and one accessor only (the plan names it).
\* `calls` holds the last call only, with what it returned; entryNo is the
\* entry element of the id the last next_id returned, 0 when it returned none.
Accessors ==
    {"next_title", "next_updated", "next_summary", "next_published", "next_comment",
     "next_journal_ref", "next_doi", "next_primary_category", "next_category",
     "next_author", "next_author_name", "next_author_affiliation"}

Plans == {"any"} \cup Accessors

Accessor(acc, p, pk) ==
    CASE acc = "next_id" -> NextId(p, pk)
      [] acc = "next_title" -> NextTitle(p, pk)
      [] acc = "next_updated" -> NextUpdated(p, pk)
      [] acc = "next_summary" -> NextSummary(p, pk)
      [] acc = "next_published" -> NextPublished(p, pk)
      [] acc = "next_comment" -> NextComment(p, pk)
      [] acc = "next_journal_ref" -> NextJournalRef(p, pk)
      [] acc = "next_doi" -> NextDoi(p, pk)
      [] acc = "next_primary_category" -> NextPrimaryCategory(p, pk)
      [] acc = "next_category" -> NextCategory(p, pk)
      [] acc = "next_author" -> NextAuthor(p, pk)
      [] acc = "next_author_name" -> NextAuthorName(p, pk)
      [] acc = "next_author_affiliation" -> NextAuthorAffiliation(p, pk)

\* An accessor call with all it returned.
Returned(acc, r) == [acc |-> acc, res |-> r.res, v |-> r.v, err |-> r.err]

\* The state of the serde bridge, which the client of the reader does not use.
AdapterVars ==
    <<shape, fields, authorAs, id, idx, aidx, keys, cur, out, val, result, run, first>>

ClientCall(acc) ==
    /\ pc = "client" /\ plan \in {"any", acc} \cup (IF acc = "next_id" THEN Plans ELSE {})
    /\ \E r \in {Accessor(acc, pos, peeked)} :
           /\ pos' = r.pos
           /\ peeked' = r.peeked
           /\ calls' = <<Returned(acc, r)>>
           /\ entryNo' = IF acc # "next_id" THEN entryNo
                          ELSE IF r.res = "some" THEN r.v.r ELSE 0
    /\ UNCHANGED <<feed, head, pagination, plan, ident, query, xml, reads, pc>>
    /\ UNCHANGED AdapterVars

CallNextId == ClientCall("next_id")
CallAccessor == \E acc \in Accessors : ClientCall(acc)

\* The records the client reads: with every tag, with the mandatory tags only,
\* with authors and no optional tag, with one author, without one mandatory
\* tag or the term attribute, and the entries next_id does not return.
ReaderRecords ==
    {FullRecord, SparseRecord, [FullRecord EXCEPT !.opt = {}],
     [SparseRecord EXCEPT !.nauth = 1], NoIdRecord, BadIdRecord, ErrorRecord}
    \cup {RecordWithout(t) : t \in MandatoryTags \cup {"term"}}

ReaderFeeds ==
    {<< >>}
    \cup {<<d>> \o [r \in 1..(n - 1) |-> e] :
             d \in ReaderRecords, e \in {FullRecord, SparseRecord}, n \in 1..MaxEntries}
    \cup {[r \in 1..(n - 1) |-> FullRecord] \o <<d>> :
             d \in ReaderRecords, n \in 1..MaxEntries}

\* The headers: the well-formed one, and those with one defect.
BadTexts == {<< >>, <<"+">>, <<"-", "1">>, <<"1", "x">>}

Heads ==
    {GoodHead, [GoodHead EXCEPT !.date = FALSE]}
    \cup {[GoodHead EXCEPT !.miss = {HeaderTags[i]}] : i \in 1..Len(HeaderTags)}
    \cup {[GoodHead EXCEPT !.text[t] = b] : t \in PaginationTags, b \in BadTexts}

InitReader ==
    /\ feed \in ReaderFeeds
    /\ head \in Heads
    /\ plan \in Plans
    /\ ident = NoIdent
    /\ query = NoQuery
    /\ xml = DocTokens(head, feed)
    /\ \E r \in {ResponseReaderInit} :
           /\ pos = r.pos
           /\ peeked = r.peeked
           /\ pagination = (IF r.res = "some" THEN r.v ELSE NoPagination)
           /\ pc = IF r.res = "some" THEN "client" ELSE "done"
           /\ result = IF r.res = "some" THEN Running ELSE Failed(r.err)
    /\ reads = NoCalls
    /\ calls = << >>
    /\ entryNo = 0
    /\ shape = "reader"
    /\ fields = << >>
    /\ authorAs = "str"
    /\ id = NoVal
    /\ idx = 0
    /\ aidx = 0
    /\ keys = << >>
    /\ cur = NoFields
    /\ out = << >>
    /\ val = Ok
    /\ run = 1
    /\ first = [result |-> Running, out |-> << >>, reads |-> NoCalls]

NextReader == CallNextId \/ CallAccessor

SpecReader == InitReader /\ [][NextReader]_vars

\* ---------------------------------------------------------------- ArticleId
\* An identifier string is the sequence of its bytes, each a one-character
\* string.  The bytes from 45 (-) to 122 (z), in the order of their values.
Ascii ==
    <<"-", ".", "/", "0", "1", "2", "3", "4", "5", "6", "7", "8", "9",
      ":", ";", "<", "=", ">", "?", "@", "A", "B", "C", "D", "E", "F",
      "G", "H", "I", "J", "K", "L", "M", "N", "O", "P", "Q", "R", "S",
      "T", "U", "V", "W", "X", "Y", "Z", "[", "backslash", "]", "^", "_", "backtick",
      "a", "b", "c", "d", "e", "f", "g", "h", "i", "j", "k", "l", "m",
      "n", "o", "p", "q", "r", "s", "t", "u", "v", "w", "x", "y", "z">>
ByteOf(c) == 44 + (CHOOSE i \in 1..Len(Ascii) : Ascii[i] = c)
IsUpper(c) == ByteOf(c) \in 65..90

\* overflowing_sub(b, 48) on a u8: the byte less the digit zero.
SubZero(b) == (ByteOf(b) - 48) % 256

\* Archive::to_id, by discriminant: the archive 1 is acc-phys, 34 is supr-con.
ArchiveIds ==
    <<<<"a", "c", "c", "-", "p", "h", "y", "s">>,   \* 1 AccPhys
      <<"a", "d", "a", "p", "-", "o", "r", "g">>,   \* 2 AdapOrg
      <<"a", "l", "g", "-", "g", "e", "o", "m">>,   \* 3 AlgGeom
      <<"a", "o", "-", "s", "c", "i">>,   \* 4 AoSci
      <<"a", "s", "t", "r", "o", "-", "p", "h">>,   \* 5 AstroPh
      <<"a", "t", "o", "m", "-", "p", "h">>,   \* 6 AtomPh
      <<"b", "a", "y", "e", "s", "-", "a", "n">>,   \* 7 BayesAn
      <<"c", "h", "a", "o", "-", "d", "y", "n">>,   \* 8 ChaoDyn
      <<"c", "h", "e", "m", "-", "p", "h">>,   \* 9 ChemPh
      <<"c", "m", "p", "-", "l", "g">>,   \* 10 CmpLg
      <<"c", "o", "m", "p", "-", "g", "a", "s">>,   \* 11 CompGas
      <<"c", "o", "n", "d", "-", "m", "a", "t">>,   \* 12 CondMat
      <<"c", "s">>,   \* 13 Cs
      <<"d", "g", "-", "g", "a">>,   \* 14 DgGa
      <<"f", "u", "n", "c", "t", "-", "a", "n">>,   \* 15 FunctAn
      <<"g", "r", "-", "q", "c">>,   \* 16 GrQc
      <<"h", "e", "p", "-", "e", "x">>,   \* 17 HepEx
      <<"h", "e", "p", "-", "l", "a", "t">>,   \* 18 HepLat
      <<"h", "e", "p", "-", "p", "h">>,   \* 19 HepPh
      <<"h", "e", "p", "-", "t", "h">>,   \* 20 HepTh
      <<"m", "a", "t", "h">>,   \* 21 Math
      <<"m", "a", "t", "h", "-", "p", "h">>,   \* 22 MathPh
      <<"m", "t", "r", "l", "-", "t", "h">>,   \* 23 MtrlTh
      <<"n", "l", "i", "n">>,   \* 24 Nlin
      <<"n", "u", "c", "l", "-", "e", "x">>,   \* 25 NuclEx
      <<"n", "u", "c", "l", "-", "t", "h">>,   \* 26 NuclTh
      <<"p", "a", "t", "t", "-", "s", "o", "l">>,   \* 27 PattSol
      <<"p", "h", "y", "s", "i", "c", "s">>,   \* 28 Physics
      <<"p", "l", "a", "s", "m", "-", "p", "h">>,   \* 29 PlasmPh
      <<"q", "-", "a", "l", "g">>,   \* 30 QAlg
      <<"q", "-", "b", "i", "o">>,   \* 31 QBio
      <<"q", "u", "a", "n", "t", "-", "p", "h">>,   \* 32 QuantPh
      <<"s", "o", "l", "v", "-", "i", "n", "t">>,   \* 33 SolvInt
      <<"s", "u", "p", "r", "-", "c", "o", "n">>>>   \* 34 SuprCon

IdOk(v) == [ok |-> TRUE, v |-> v, err |-> ""]
IdErr(e) == [ok |-> FALSE, v |-> << >>, err |-> e]

\* parse::version.
ParseVersion(cs) ==
    IF /\ Len(cs) \in 1..5
       /\ \A i \in 1..Len(cs) : IsDigit(cs[i])
       /\ cs[1] # "0"
       /\ DigitsValue(cs) <= 65535
    THEN IdOk(DigitsValue(cs))
    ELSE IdErr("InvalidVersion")

\* parse::number_and_version_len_3, _len_4 and _len_5: k is 3, 4 or 5.
NumberAndVersion(k, cs) ==
    IF Len(cs) < k \/ \E i \in 1..k : ~IsDigit(cs[i]) THEN IdErr("InvalidNumber")
    ELSE LET number == DigitsValue(SubSeq(cs, 1, k))
             tail == SubSeq(cs, k + 1, Len(cs))
         IN  IF number = 0 THEN IdErr("NumberOutOfRange")
             ELSE IF tail # << >> /\ tail[1] = "v"
             THEN LET v == ParseVersion(Tail(tail))
                  IN  IF v.ok THEN IdOk([number |-> number, version |-> v.v]) ELSE v
             ELSE IF tail = << >> THEN IdOk([number |-> number, version |-> 0])
             ELSE IF Len(tail) = 1 /\ IsDigit(tail[1]) THEN IdErr("NumberOutOfRange")
             ELSE IdErr("InvalidVersion")

\* The month check of parse::date_old.
MonthFormatOld(m1, m2) == (m1 = 0 /\ 1 <= m2 /\ m2 <= 9) \/ (m1 = 1 /\ m2 <= 2)

\* The month check of parse::date_new.
MonthFormatNew(m1, m2) == (m1 = 0 /\ 1 <= m2 /\ m2 <= 9) \/ (m1 = 1 /\ m1 <= 2)

\* parse::date_new: (years_since_epoch, month), both u8.
DateNew(d) ==
    IF ~IsDigit(d[1]) \/ ~IsDigit(d[2]) THEN IdErr("InvalidDate")
    ELSE LET y1 == DigitValue(d[1])
             y2 == DigitValue(d[2])
             m1 == SubZero(d[3])
             m2 == SubZero(d[4])
         IN  IF ~MonthFormatNew(m1, m2) THEN IdErr("InvalidDate")
             ELSE IdOk([y |-> IF y1 = 0 /\ (y2 <= 6 \/ (y2 = 7 /\ m1 = 0 /\ m2 <= 3))
                              THEN 100 + 9 + y2
                              ELSE 9 + 10 * y1 + y2,
                        m |-> (10 * m1 + m2) % 256])

\* The date range check of parse::date_old: TRUE when the date is refused.
OutOfRangeOld(y1, y2, m1, m2) ==
    \/ ~((y1 = 9 /\ 1 <= y2 /\ y2 <= 9) \/ (y1 = 0 /\ y2 <= 7))
    \/ (y1 = 9 /\ y2 = 1 /\ m2 <= 7)
    \/ (y1 = 0 /\ y2 = 7 /\ m2 >= 4)

\* parse::date_old.
DateOld(d) ==
    IF ~IsDigit(d[1]) \/ ~IsDigit(d[2]) THEN IdErr("InvalidDate")
    ELSE LET y1 == DigitValue(d[1])
             y2 == DigitValue(d[2])
             m1 == SubZero(d[3])
             m2 == SubZero(d[4])
         IN  IF ~MonthFormatOld(m1, m2) THEN IdErr("InvalidDate")
             ELSE IF OutOfRangeOld(y1, y2, m1, m2) THEN IdErr("DateOutOfRange")
             ELSE IdOk([y |-> IF y1 = 9 THEN y2 - 1 ELSE y2 + 9,
                        m |-> (10 * m1 + m2) % 256])

\* parse::date_number.
DateNumber(cs) ==
    IF Len(cs) < 4 THEN IdErr("InvalidDate")
    ELSE LET d == DateOld(SubSeq(cs, 1, 4))
         IN  IF ~d.ok THEN d
             ELSE LET nv == NumberAndVersion(3, SubSeq(cs, 5, Len(cs)))
                  IN  IF ~nv.ok THEN nv
                      ELSE IdOk([y |-> d.v.y, m |-> d.v.m, number |-> nv.v.number,
                                 version |-> nv.v.version])

\* archive::strip_archive_prefix_bytes, after the match table of
\* archive::strip_prefix: the archive whose id the bytes start with and the
\* bytes after it.  The arm of math-ph stands before the arm of math, so the
\* longest id that fits is the one the table takes.
IsPrefix(a, cs) == Len(a) <= Len(cs) /\ SubSeq(cs, 1, Len(a)) = a
StripArchivePrefix(cs) ==
    LET fits == {a \in 1..Len(ArchiveIds) : IsPrefix(ArchiveIds[a], cs)}
    IN  IF fits = {} THEN IdErr("InvalidArchive")
        ELSE LET a == CHOOSE x \in fits :
                          \A z \in fits : Len(ArchiveIds[z]) <= Len(ArchiveIds[x])
             IN  IdOk([archive |-> a,
                       tail |-> SubSeq(cs, Len(ArchiveIds[a]) + 1, Len(cs))])

\* A layout with the archive before the date; C28 tells it from NewUnchecked.
NewUncheckedArchiveFirst(y, m, a, n, v) ==
    <<a % 256, y % 256, m % 256, (n \div 65536) % 256, (n \div 256) % 256, n % 256,
      (v \div 256) % 256, v % 256>>

\* ArticleId::new_unchecked: the u64 as its eight bytes, the most significant
\* first (to_be_bytes): years_since_epoch, month, archive, three bytes of the
\* number, two of the version.
NewUnchecked(y, m, a, n, v) ==
    <<y % 256, m % 256, a % 256, (n \div 65536) % 256, (n \div 256) % 256, n % 256,
      (v \div 256) % 256, v % 256>>

\* The part of ArticleId::parse_bytes after the archive was stripped: the
\* separator and the date, number and version.
AfterArchive(tail) ==
    IF tail # << >> /\ tail[1] = "/" THEN Tail(tail)
    ELSE IF /\ Len(tail) >= 4 /\ tail[1] = "." /\ IsUpper(tail[2]) /\ IsUpper(tail[3])
            /\ tail[4] = "/"
    THEN SubSeq(tail, 5, Len(tail))
    ELSE tail

\* ArticleId::parse_bytes (ArticleId::parse is parse_bytes of the str's bytes).
ParseBytes(cs) ==
    IF Len(cs) >= 5 /\ IsDigit(cs[1]) /\ cs[5] = "."
    THEN LET d == DateNew(SubSeq(cs, 1, 4))
         IN  IF ~d.ok THEN d
             ELSE LET nv == NumberAndVersion(IF d.v.y <= 23 THEN 4 ELSE 5,
                                             SubSeq(cs, 6, Len(cs)))
                  IN  IF ~nv.ok THEN nv
                      ELSE IdOk(NewUnchecked(d.v.y, d.v.m, 0, nv.v.number, nv.v.version))
    ELSE LET s == StripArchivePrefix(cs)
         IN  IF ~s.ok THEN s
             ELSE LET dn == DateNumber(AfterArchive(s.v.tail))
                  IN  IF ~dn.ok THEN dn
                      ELSE IdOk(NewUnchecked(dn.v.y, dn.v.m, s.v.archive, dn.v.number,
                                             dn.v.version))

\* raw::years_since_epoch, raw::month, raw::archive, raw::number, raw::version
\* and ArticleId::year; the archive 0 is None, the version 0 is None.
YearsSinceEpoch(raw) == raw[1]
Month(raw) == raw[2]
ArchiveOf(raw) == raw[3]
Number(raw) == raw[4] * 65536 + raw[5] * 256 + raw[6]
Version(raw) == raw[7] * 256 + raw[8]
ARXIV_EPOCH == 1991
Year(raw) == ARXIV_EPOCH + YearsSinceEpoch(raw)

\* ArticleId::new; the number is a NonZero<u32>.
New(year, month, archive, number, version) ==
    IF month = 0 \/ month > 12 THEN IdErr("DateOutOfRange")
    ELSE IF archive # 0
    THEN IF \/ ~(1991 <= year /\ year <= 2007)
            \/ (year = 1991 /\ month <= 7)
            \/ (year = 2007 /\ month >= 4)
         THEN IdErr("DateOutOfRange")
         ELSE IF number >= 1000 THEN IdErr("NumberOutOfRange")
         ELSE IdOk(NewUnchecked(year - ARXIV_EPOCH, month, archive, number, version))
    ELSE IF \/ ~(2007 <= year /\ year <= 2107)
            \/ (year = 2007 /\ month < 4)
            \/ (year = 2107 /\ month >= 4)
         THEN IdErr("DateOutOfRange")
         ELSE IF number >= (IF year <= 2014 THEN 10000 ELSE 100000)
         THEN IdErr("NumberOutOfRange")
         ELSE IdOk(NewUnchecked(year - ARXIV_EPOCH, month, archive, number, version))

\* ArticleId::serialize.
Serialize(aid) == aid

\* ArticleId::deserialize: Some(aid) or None.
Deserialize(raw) ==
    LET y == YearsSinceEpoch(raw)
        month == Month(raw)
        archive == ArchiveOf(raw)
        number == Number(raw)
    IN  IF month = 0 \/ month > 12 THEN IdErr("None")
        ELSE IF number = 0 THEN IdErr("None")
        ELSE IF archive = 0
        THEN IF \/ ~(16 <= y /\ y <= 116)
                \/ (y = 16 /\ month < 4)
                \/ (y = 116 /\ month >= 4)
             THEN IdErr("None")
             ELSE IF number >= (IF y <= 23 THEN 10000 ELSE 100000) THEN IdErr("None")
             ELSE IdOk(raw)
        ELSE IF archive <= 34
        THEN IF (y > 16) \/ (y = 0 /\ month <= 7) \/ (y = 16 /\ month >= 4)
             THEN IdErr("None")
             ELSE IF number >= 1000 THEN IdErr("None")
             ELSE IdOk(raw)
        ELSE IdErr("None")

\* The decimal digits of n, and n written with at least w digits ({:0w}).
RECURSIVE Decimal(_)
Decimal(n) ==
    IF n < 10 THEN <<Digits[n + 1]>> ELSE Decimal(n \div 10) \o <<Digits[(n % 10) + 1]>>
RECURSIVE Padded(_, _)
Padded(w, n) ==
    IF Len(Decimal(n)) >= w THEN Decimal(n) ELSE <<"0">> \o Padded(w - 1, n)

\* Display for ArticleId.
Display(aid) ==
    LET yy == ((YearsSinceEpoch(aid) + 91) % 256) % 100
    IN  (IF ArchiveOf(aid) # 0
         THEN ArchiveIds[ArchiveOf(aid)] \o <<"/">> \o Padded(2, yy) \o Padded(2, Month(aid))
                  \o Padded(3, Number(aid))
         ELSE Padded(2, yy) \o Padded(2, Month(aid)) \o <<".">>
                  \o Padded(IF YearsSinceEpoch(aid) <= 23 THEN 4 ELSE 5, Number(aid)))
        \o (IF Version(aid) # 0 THEN <<"v">> \o Decimal(Version(aid)) ELSE << >>)

\* A logarithm that counts every digit; C29 tells it from Ilog10.
DigitCount(v) == Len(Decimal(v))

\* u16::checked_ilog10 of a v that is not 0.
Ilog10(v) == Len(Decimal(v)) - 1

\* BODY_OFFSET_LUT of ArticleId::formatted_len, from the archive 0 (None) on.
BODY_OFFSET_LUT ==
    <<0, 7, 7, 7, 5,
      7, 6, 7, 7, 6,
      5, 7, 7, 1, 4,
      7, 4, 5, 6, 5,
      5, 3, 6, 6, 3,
      6, 6, 7, 6, 7,
      4, 4, 7, 7, 7>>

\* ArticleId::formatted_len.
FormattedLen(aid) ==
    LET v == Version(aid)
        l_version == IF v = 0 THEN 0 ELSE IF v <= 9 THEN 2 ELSE Ilog10(v) + 2
        l_body == BODY_OFFSET_LUT[ArchiveOf(aid) + 1]
        new_style_offset == IF YearsSinceEpoch(aid) > 23 THEN 1 ELSE 0
    IN  l_version + l_body + new_style_offset + 9
MAX_ID_FORMATTED_LEN == 22

\* The derived Ord of ArticleId: the order of the u64, which is the order of
\* its bytes from the most significant on.
IdLess(a, b) ==
    \E i \in 1..8 : a[i] < b[i] /\ \A j \in 1..(i - 1) : a[j] = b[j]

\* ------------------------------------------------------ a client of ArticleId
\* The third specification calls the functions of ArticleId on an identifier
\* string or on the parts of an identifier, and then on the identifier made.
\* The decode's variables stay as a finished decode of nothing leaves them.
IdleDecode ==
    /\ feed = << >>
    /\ head = GoodHead
    /\ pagination = NoPagination
    /\ plan = ""
    /\ xml = << >>
    /\ pos = 0
    /\ peeked = NoEvent
    /\ reads = NoCalls
    /\ shape = "none"
    /\ fields = << >>
    /\ authorAs = "str"
    /\ pc = "done"
    /\ id = NoVal
    /\ idx = 0
    /\ aidx = 0
    /\ keys = << >>
    /\ calls = << >>
    /\ cur = NoFields
    /\ entryNo = 0
    /\ out = << >>
    /\ val = Ok
    /\ result = Ok
    /\ run = 1
    /\ first = [result |-> Running, out |-> << >>, reads |-> NoCalls]

DecodeVars ==
    <<feed, head, pagination, plan, xml, pos, peeked, reads, shape, fields, authorAs, pc,
      id, idx, aidx, keys, calls, cur, entryNo, out, val, result, run, first>>

Range(s) == {s[i] : i \in 1..Len(s)}

\* The date blocks: every two-digit year, and months whose first digit is 0, 1
\* or 2.
DateBlocks ==
    {<<y1, y2, m1, m2>> : y1 \in Range(Digits), y2 \in Range(Digits),
                          m1 \in {"0", "1", "2"}, m2 \in Range(Digits)}

\* The text of a version: none, v and a number, and texts parse::version refuses.
VersionTexts ==
    {<< >>, <<"v">>, <<"v", "0">>, <<"v", "0", "1">>, <<"x">>, <<"7">>,
     <<"v", "6", "5", "5", "3", "6">>, <<"v", "1", "0", "0", "0", "0", "0">>}
    \cup {<<"v">> \o Decimal(v) : v \in {1, 9, 10, 99, 100, 9999, 10000, 65535}}

NumberTexts ==
    {Padded(w, n) : w \in 3..5, n \in {0, 1, 999}} \cup {Padded(4, 9999), Padded(5, 99999),
                                                       <<"1", "2">>, <<"0", "x", "1">>}

\* What stands before the date of an old-style identifier: an archive or not
\* one, and a separator with or without a subject class.
ArchiveTexts == Range(ArchiveIds) \cup {<<"b", "a", "d">>, << >>, <<"m", "a", "t">>}
Separators ==
    {<<"/">>, << >>, <<".", "C", "A", "/">>, <<".", "Z", "/">>, <<".", "c", "a", "/">>,
     <<".">>}

Math == ArchiveIds[21]

\* The identifier strings the client parses.
IdTexts ==
    {d \o <<".">> \o Padded(w, 1) : d \in DateBlocks, w \in 4..5}
    \cup {Math \o <<"/">> \o d \o Padded(3, 1) : d \in DateBlocks}
    \cup {d \o <<".">> \o n \o v :
              d \in {<<"1", "3", "0", "4">>, <<"1", "5", "0", "1">>, <<"0", "7", "0", "3">>},
              n \in NumberTexts, v \in VersionTexts}
    \cup {Math \o <<"/">> \o <<"9", "2", "0", "5">> \o n \o v :
              n \in NumberTexts, v \in VersionTexts}
    \cup {a \o s \o <<"0", "1", "0", "1", "0", "1", "0">> \o v :
              a \in ArchiveTexts, s \in Separators, v \in {<< >>, <<"v", "1", "2">>}}
    \cup {<< >>, <<"1", "3">>, <<"1", "3", "0", "4">>}

\* The parts the client hands to ArticleId::new: year, month, archive (0 is
\* None), number (not 0) and version (0 is None).
Parts(y, m, a, n, v) == [year |-> y, month |-> m, archive |-> a, number |-> n, version |-> v]
IdParts ==
    {Parts(y, m, a, n, v) :
         y \in {1990, 1991, 1992, 2000, 2006, 2007, 2008, 2014, 2015, 2106, 2107, 2108},
         m \in 0..13, a \in {0, 1, 13, 21, 34},
         n \in {1, 999, 1000, 9999, 10000, 99999, 100000},
         v \in {0, 1, 9, 10, 65535}}

\* The identifiers the client compares with: those ArticleId::new makes of
\* these parts.
OtherParts ==
    {p \in {Parts(y, m, a, n, v) : y \in {1992, 2007, 2015}, m \in {3, 4}, a \in {0, 20, 21},
                                   n \in {1, 2}, v \in {0, 1}} :
         New(p.year, p.month, p.archive, p.number, p.version).ok}

NoParts == Parts(0, 0, 0, 0, 0)
NoRes == [op |-> "none"]

\* What unwrap_unchecked may give on an Err: its behaviour is undefined, and
\* an identifier of any bits is modelled by the one that was displayed and by
\* the one of all zero bits.
Unwrapped(p, shown) == IF p.ok THEN {p.v} ELSE {shown, NewUnchecked(0, 0, 0, 0, 0)}

\* A deserialize_u64 that hands on the identifier without its version; C21 tells
\* it from DeserializeU64.
DeserializeU64NoVersion(cs) ==
    LET p == ParseBytes(cs)
    IN  IF p.ok THEN IdOk(Serialize([p.v EXCEPT ![7] = 0, ![8] = 0])) ELSE p

\* IdDeserializer::deserialize_bytes hands the visitor the borrowed bytes;
\* deserialize_u64 hands it the serialized form of the parsed identifier, or
\* fails with the error of the parse.
DeserializeBytes(cs) == IdOk(cs)
DeserializeU64(cs) ==
    LET p == ParseBytes(cs) IN IF p.ok THEN IdOk(Serialize(p.v)) ELSE p

InitId ==
    /\ IdleDecode
    /\ query = NoQuery
    /\ \/ \E t \in IdTexts :
              ident = [op |-> "text", text |-> t, parts |-> NoParts, made |-> IdErr(""),
                       res |-> NoRes]
       \/ \E p \in IdParts :
              ident = [op |-> "parts", text |-> << >>, parts |-> p, made |-> IdErr(""),
                       res |-> NoRes]

IdStep(from, to, made, res) ==
    /\ ident.op = from
    /\ ident' = [ident EXCEPT !.op = to, !.made = made, !.res = res]
    /\ UNCHANGED query
    /\ UNCHANGED DecodeVars

\* ArticleId::parse of the string.
IdParse ==
    /\ ident.op = "text"
    /\ IdStep("text", "made", ParseBytes(ident.text), NoRes)

\* ArticleId::new of the parts.
IdNew ==
    /\ ident.op = "parts"
    /\ IdStep("parts", "made",
              New(ident.parts.year, ident.parts.month, ident.parts.archive,
                  ident.parts.number, ident.parts.version),
              NoRes)

\* The identifier of the string decoded through IdDeserializer, as bytes that
\* the target parses and as u64.
IdDecode ==
    /\ ident.op = "text"
    /\ IdStep("text", "decoded", ident.made,
              [bytes |-> DeserializeBytes(ident.text), u64 |-> DeserializeU64(ident.text)])

\* Validated::<String>::from(id), and ArticleId::from of the result.
IdViaValidated ==
    /\ ident.made.ok
    /\ \E p \in {ParseBytes(Display(ident.made.v))} :
           \E v \in Unwrapped(p, ident.made.v) :
               IdStep("made", "validated", ident.made,
                      [shown |-> Display(ident.made.v), parsed |-> p, v |-> v])

\* ArticleId::deserialize(id.serialize()).
IdSerde ==
    /\ ident.made.ok
    /\ IdStep("made", "serde", ident.made, Deserialize(Serialize(ident.made.v)))

\* ArticleId::new of the identifier's year(), month(), archive(), number() and
\* version().
IdFromParts ==
    /\ ident.made.ok
    /\ \E i \in {ident.made.v} :
           IdStep("made", "renew", ident.made,
                  New(Year(i), Month(i), ArchiveOf(i), Number(i), Version(i)))

\* id.formatted_len() and id.to_string().
IdFormattedLen ==
    /\ ident.made.ok
    /\ IdStep("made", "len", ident.made,
              [len |-> FormattedLen(ident.made.v), shown |-> Display(ident.made.v)])

\* id < other and other < id, for an identifier ArticleId::new made.
IdCompare ==
    /\ ident.made.ok
    /\ \E p \in OtherParts :
           \E o \in {New(p.year, p.month, p.archive, p.number, p.version).v} :
               IdStep("made", "cmp", ident.made,
                      [parts |-> p, other |-> o, less |-> IdLess(ident.made.v, o),
                       greater |-> IdLess(o, ident.made.v)])

NextArticleId ==
    \/ IdParse
    \/ IdNew
    \/ IdDecode
    \/ IdViaValidated
    \/ IdSerde
    \/ IdFromParts
    \/ IdFormattedLen
    \/ IdCompare

SpecId == InitId /\ [][NextArticleId]_vars

\* ------------------------------------------------------------------- Query
\* An Option: None, or Some of a value.
Absent == << >>
Present(v) == <<v>>

\* Query::new(): the default of every field.
QueryNew ==
    [search_query |-> << >>, id_list |-> << >>, pagination |-> Absent, sort |-> Absent,
     http |-> FALSE]

\* A paginate that stores its arguments before it checks them; C30 tells it
\* from Paginate.
PaginateStoreFirst(q, start, max_results) ==
    [q |-> [q EXCEPT !.pagination = Present(<<start, max_results>>)],
     ret |-> IF start <= 30000 /\ max_results <= 2000 THEN "Some" ELSE "None"]

\* Query::paginate: the query after the call, and Some(self) or None.
Paginate(q, start, max_results) ==
    IF start <= 30000 /\ max_results <= 2000
    THEN [q |-> [q EXCEPT !.pagination = Present(<<start, max_results>>)], ret |-> "Some"]
    ELSE [q |-> q, ret |-> "None"]

\* Query::sort, Query::http, Query::https.
Sort(q, by, order) == [q EXCEPT !.sort = Present(<<by, order>>)]
Http(q) == [q EXCEPT !.http = TRUE]
Https(q) == [q EXCEPT !.http = FALSE]

\* SearchQuery::init and SearchQuery::clear on the buffer of the query.
SearchInit(q, group) == [q EXCEPT !.search_query = <<group>>]
SearchClear(q) == [q EXCEPT !.search_query = << >>]

\* IdList::push and IdList::clear on the buffer of the query.
IdListPush(q, i) ==
    [q EXCEPT !.id_list = IF @ = << >> THEN <<i>> ELSE @ \o <<",", i>>]
IdListClear(q) == [q EXCEPT !.id_list = << >>]

\* ------------------------------------------------------- a client of Query
\* The arguments of the calls: u16 values around the two limits of paginate,
\* the sort keys and orders, a field group and an identifier.
Starts == {0, 20, 30000, 30001, 65535}
MaxResults == {0, 10, 2000, 2001, 65535}
SortBys == {"Relevance", "LastUpdatedDate", "SubmittedDate"}
SortOrders == {"Ascending", "Descending"}
MaxIdList == 2

NoCall == [call |-> "new", start |-> 0, max_results |-> 0, ret |-> "Self"]

InitQuery ==
    /\ IdleDecode
    /\ ident = NoIdent
    /\ query = [op |-> "query", q |-> QueryNew, last |-> NoCall]

\* One call on the query: the query after it, and what the call was and
\* returned.
QueryCall(q, call, ret) ==
    /\ query' = [op |-> "query", q |-> q, last |-> [NoCall EXCEPT !.call = call, !.ret = ret]]
    /\ UNCHANGED ident
    /\ UNCHANGED DecodeVars

QueryPaginate ==
    /\ query.op = "query"
    /\ \E start \in Starts, max_results \in MaxResults :
           \E r \in {Paginate(query.q, start, max_results)} :
               /\ query' = [op |-> "query", q |-> r.q,
                            last |-> [call |-> "paginate", start |-> start,
                                      max_results |-> max_results, ret |-> r.ret]]
               /\ UNCHANGED ident
               /\ UNCHANGED DecodeVars

QuerySort ==
    /\ query.op = "query"
    /\ \E by \in SortBys, order \in SortOrders :
           QueryCall(Sort(query.q, by, order), "sort", "Self")

QueryHttp ==
    /\ query.op = "query"
    /\ QueryCall(Http(query.q), "http", "Self")

QueryHttps ==
    /\ query.op = "query"
    /\ QueryCall(Https(query.q), "https", "Self")

QuerySearchInit ==
    /\ query.op = "query"
    /\ QueryCall(SearchInit(query.q, "(ti:a OR rn:b ANDNOT all:c)"), "search_query", "Self")

QuerySearchClear ==
    /\ query.op = "query"
    /\ QueryCall(SearchClear(query.q), "search_clear", "Self")

QueryIdListPush ==
    /\ query.op = "query"
    /\ Len(query.q.id_list) < 2 * MaxIdList - 1
    /\ QueryCall(IdListPush(query.q, "0704.0001"), "id_list", "Self")

QueryIdListClear ==
    /\ query.op = "query"
    /\ QueryCall(IdListClear(query.q), "id_clear", "Self")

NextQuery ==
    \/ QueryPaginate
    \/ QuerySort
    \/ QueryHttp
    \/ QueryHttps
    \/ QuerySearchInit
    \/ QuerySearchClear
    \/ QueryIdListPush
    \/ QueryIdListClear

SpecQuery == InitQuery /\ [][NextQuery]_vars

\* -------------------------------------------------------------- FieldGroup
\* A string is the sequence of its pieces.  Display for BooleanOp.
BooleanOps == {" AND ", " OR ", " ANDNOT "}

\* Field::check_value on a value of pieces: no operator, parenthesis or colon.
CheckValue(value) ==
    \A i \in 1..Len(value) : value[i] \notin BooleanOps \cup {")", "(", ":"}

\* Field::init, and Display for Field.
FieldInit(field_type, value) ==
    IF CheckValue(value) THEN Present([field_type |-> field_type, value |-> value])
    ELSE Absent
DisplayField(f) == <<f.field_type, ":">> \o f.value

\* NaiveDateTime::format("%Y%m%d%H%M").
FormatDate(d) ==
    Padded(4, d.year) \o Padded(2, d.month) \o Padded(2, d.day) \o Padded(2, d.hour)
        \o Padded(2, d.minute)

\* FieldGroup::init and From<Field<S>> for FieldGroup.
FieldGroupInit(initial) == [inner |-> DisplayField(initial), num_fields |-> 1]

\* Combine<Field<S>> for FieldGroup: push.
PushField(g, op, element) ==
    [inner |-> g.inner \o <<op>> \o DisplayField(element), num_fields |-> g.num_fields + 1]

\* Combine<Range<NaiveDateTime>> for FieldGroup: push.
PushRange(g, op, element) ==
    [inner |-> g.inner \o <<op, "submittedDate:[">> \o FormatDate(element.start)
                   \o <<" TO ">> \o FormatDate(element.end) \o <<"]">>,
     num_fields |-> g.num_fields]

\* Display for FieldGroup.
DisplayGroup(g) ==
    IF g.num_fields = 1 THEN g.inner ELSE <<"(">> \o g.inner \o <<")">>

\* -------------------------------------------------- a client of FieldGroup
\* The fields and the date range the client combines, and how many components
\* it puts in one group.
MaxComponents == 3
FieldValues == {<<"a">>, <<"b", " ", "c">>, <<"a", " OR ", "b">>, <<"(", "a">>, <<"x", ":", "y">>}
SearchFields ==
    {f[1] : f \in {FieldInit(t, v) : t \in {"ti", "au"}, v \in FieldValues} \ {Absent}}
DateOf(y, m, d) == [year |-> y, month |-> m, day |-> d, hour |-> 0, minute |-> 0]
DateRanges == {[start |-> DateOf(2016, 7, 8), end |-> DateOf(2023, 2, 18)]}

InitGroup ==
    /\ IdleDecode
    /\ ident = NoIdent
    /\ \E f \in SearchFields :
           query = [op |-> "group", g |-> FieldGroupInit(f), combined |-> 1, shown |-> Absent]

\* One call on the group: the group after it and the number of components it
\* combines.
GroupCall(g, n) ==
    /\ query' = [op |-> "group", g |-> g, combined |-> n, shown |-> Absent]
    /\ UNCHANGED ident
    /\ UNCHANGED DecodeVars

\* group.push(op, field), which and, or and and_not call.
GroupPushField ==
    /\ query.op = "group"
    /\ query.combined < MaxComponents
    /\ \E op \in BooleanOps, f \in SearchFields :
           GroupCall(PushField(query.g, op, f), query.combined + 1)

\* group.push(op, start..end).
GroupPushRange ==
    /\ query.op = "group"
    /\ query.combined < MaxComponents
    /\ \E op \in BooleanOps, r \in DateRanges :
           GroupCall(PushRange(query.g, op, r), query.combined + 1)

\* group.to_string().
GroupDisplay ==
    /\ query.op = "group"
    /\ query.shown = Absent
    /\ query' = [query EXCEPT !.shown = Present(DisplayGroup(query.g))]
    /\ UNCHANGED ident
    /\ UNCHANGED DecodeVars

NextGroup ==
    \/ GroupPushField
    \/ GroupPushRange
    \/ GroupDisplay

SpecGroup == InitGroup /\ [][NextGroup]_vars

\* ------------------------------------------------------- a client of Reader
\* A caller of Reader::find_before and Reader::read with closures of its own:
\* matchers and halt closures that accept the same token among them, and
\* closures that accept none.  `calls` holds the last call, with its closures,
\* the pushed-back token it began with and what it returned.
ScanFeeds == {<< >>, <<SparseRecord>>, <<FullRecord>>}
ScanMatchers ==
    {Tag("Start", "title"), Tag("Start", "entry"), Tag("End", "entry"),
     Tag("Empty", "category"), Tag("Start", "arxiv:doi"), Tag("Start", "absent")}
ScanHalts ==
    {NoHalt, HaltEnd("entry"), HaltDoi, HaltAuthor, {Tag("Start", "title")},
     {Tag("Start", "entry"), Tag("Empty", "category")}}

InitScan ==
    /\ feed \in ScanFeeds
    /\ head = GoodHead
    /\ plan = ""
    /\ ident = NoIdent
    /\ query = NoQuery
    /\ xml = FeedTokens(feed)
    /\ pos = 0
    /\ peeked = NoEvent
    /\ pagination = NoPagination
    /\ pc = "scan"
    /\ result = Running
    /\ reads = NoCalls
    /\ calls = << >>
    /\ entryNo = 0
    /\ shape = "scan"
    /\ fields = << >>
    /\ authorAs = "str"
    /\ id = NoVal
    /\ idx = 0
    /\ aidx = 0
    /\ keys = << >>
    /\ cur = NoFields
    /\ out = << >>
    /\ val = Ok
    /\ run = 1
    /\ first = [result |-> Running, out |-> << >>, reads |-> NoCalls]

\* reader.find_before(f, halt).
ScanFindBefore ==
    /\ pc = "scan"
    /\ \E m \in ScanMatchers, h \in ScanHalts :
           \E s \in {FindBefore(pos, peeked, m, h)} :
               /\ pos' = s.pos
               /\ peeked' = s.peeked
               /\ calls' = <<[op |-> "find_before", m |-> m, h |-> h, had |-> peeked,
                              found |-> s.found, ev |-> s.ev]>>
    /\ UNCHANGED <<feed, head, pagination, plan, ident, query, xml, reads, pc, entryNo>>
    /\ UNCHANGED AdapterVars

\* reader.read().
ScanRead ==
    /\ pc = "scan"
    /\ \E r \in {Read(pos, peeked)} :
           /\ pos' = r.pos
           /\ peeked' = NoEvent
           /\ calls' = <<[op |-> "read", m |-> Tag("", ""), h |-> NoHalt, had |-> peeked,
                          found |-> r.ev # NoEvent, ev |-> r.ev]>>
    /\ UNCHANGED <<feed, head, pagination, plan, ident, query, xml, reads, pc, entryNo>>
    /\ UNCHANGED AdapterVars

NextScan == ScanFindBefore \/ ScanRead

SpecScan == InitScan /\ [][NextScan]_vars

\* ------------------------------------------------------------ observations
\* Every entry element of the feed is a record of the schema.
AllValid == \A r \in 1..Len(feed) : feed[r].id = "abs" /\ feed[r].miss = {}

\* The index in the input of the closing tag of entry element n (of the last
\* event of the header for n = 0).
RECURSIVE EntryEnd(_)
EntryEnd(n) ==
    IF n = 0 THEN Len(HeadTokens(head)) ELSE EntryEnd(n - 1) + Len(EntryTokens(feed[n], n))

\* The index of the next event Reader::read will return.
CursorIndex == IF peeked # NoEvent THEN pos ELSE pos + 1

\* The event that opens each field of the table in the input, and the event
\* that closes the record.
FieldTag ==
    <<Tag("Start", "id"), Tag("Start", "title"), Tag("Start", "updated"),
      Tag("Start", "summary"), Tag("Empty", "category"), Tag("Start", "published"),
      Tag("Start", "arxiv:comment"), Tag("Empty", "arxiv:primary_category"),
      Tag("Start", "arxiv:journal_ref"), Tag("Start", "author"),
      Tag("Start", "arxiv:doi"), Tag("End", "entry")>>

\* The place of an event in the schema, 0 for the events that open no field.
Rank(ev) ==
    IF \E i \in 1..Len(FieldTag) : FieldTag[i] = Tag(ev.k, ev.n)
    THEN CHOOSE i \in 1..Len(FieldTag) : FieldTag[i] = Tag(ev.k, ev.n)
    ELSE 0

\* The place in the table of the field an accessor reads.
AccessorRank(acc) ==
    IF acc \in {"next_author_name", "next_author_affiliation"} THEN 10
    ELSE 1 + CHOOSE i \in 1..Len(GetterName) : GetterName[i] = acc

\* In entry element n, the index of the first event that opens a field after
\* place k of the schema, or of the closing tag of the entry.
NextFieldIndex(n, k) ==
    LET S == {q \in (EntryEnd(n - 1) + 1)..EntryEnd(n) : Rank(xml[q]) > k}
    IN  CHOOSE q \in S : \A q2 \in S : q <= q2

\* The target requests every field of the table.
RequestsAll == \A n \in FieldNames : Contains(fields, n)

OptValue(d, r, n) == IF n \in d.opt THEN Val(r, n, 1) ELSE NoneVal

\* What the visitor of a record receives for the field `name` when every value
\* is the content of the record's own tag: d is the descriptor of entry r.
Expected(d, r, name) ==
    CASE name = "categories" -> [c \in 1..d.ncat |-> Val(r, "category", c)]
      [] name = "authors" ->
            IF authorAs = "str" THEN [a \in 1..d.nauth |-> Val(r, "name", a)]
            ELSE Flatten([a \in 1..d.nauth |->
                     <<Val(r, "name", a),
                       IF HasAffiliation(a) THEN Val(r, "affiliation", a) ELSE NoneVal>>])
      [] name = "comment" -> <<OptValue(d, r, "arxiv:comment")>>
      [] name = "journal_ref" -> <<OptValue(d, r, "arxiv:journal_ref")>>
      [] name = "doi" -> <<OptValue(d, r, "arxiv:doi")>>
      [] name = "primary_category" -> <<Val(r, "arxiv:primary_category", 1)>>
      [] OTHER -> <<Val(r, name, 1)>>

\* The decode of a record has returned no error to the visitor of the list.
NoRecordError ==
    /\ shape = "seq" => result.st # "err"
    /\ shape = "option" => val.st # "err"

\* ------------------------------------------------------------------ claims
\* C1: in a record in schema order, an optional or repeatable accessor called
\* at its schema position on an absent or exhausted field returns None/false
\* and leaves the cursor at the start of the next field present in the record
\* or at the record's closing tag, and the accessor called after it succeeds.
C1_AbsentFieldLeavesCursorAtNextField ==
    (AllValid /\ RequestsAll /\ calls # << >>) =>
        LET c == calls[Len(calls)]
        IN  /\ c.res # "err"
            /\ c.res = "none" =>
                   IF c.acc = "next_author_affiliation"
                   THEN peeked = End("author")
                   ELSE CursorIndex = NextFieldIndex(entryNo, AccessorRank(c.acc))

\* C2: a record in schema order with every mandatory tag decodes into a target
\* that requests all 11 fields, and each field receives the content of the
\* record's own tag: every category, every author, None for an absent optional.
C2_AllFieldsDecode ==
    (AllValid /\ RequestsAll /\ shape \in {"seq", "option"}) =>
        /\ NoRecordError
        /\ \A i \in 1..Len(out) : \A n \in FieldNames :
               out[i].done => out[i].rec[n] = Expected(feed[out[i].no], out[i].no, n)

\* C3: for any subset of the allowed fields, declared in any order, the decode
\* of a record in schema order succeeds and every requested field receives the
\* content of the record's own tag, as it does when all fields are requested.
C3_AnySubsetDecodes ==
    (AllValid /\ shape \in {"seq", "option"}) =>
        /\ NoRecordError
        /\ \A i \in 1..Len(out) : \A n \in FieldNames :
               (out[i].done /\ Contains(fields, n))
                   => out[i].rec[n] = Expected(feed[out[i].no], out[i].no, n)

\* A record is being decoded, or was decoded and next_id was not called since.
InRecord ==
    \/ pc \in {"map_value", "entry_key", "entry_value", "categories", "authors",
               "author", "author_value", "opt_tail"}
    \/ pc = "list" /\ entryNo > 0

\* Every value of the record `rec` is None or a text of entry element n.
OwnValues(rec, n) ==
    \A f \in FieldNames : \A i \in 1..Len(rec[f]) :
        rec[f][i] = NoneVal \/ rec[f][i].r = n

\* C4: while a record is decoded, no event after the record's closing entry
\* tag is consumed: the closing tag is not consumed before the following
\* next_id call, and no value delivered for a record comes from another one.
C4_NoEventPastClosingTag ==
    /\ InRecord =>
           /\ CursorIndex <= EntryEnd(entryNo)
           /\ pos = EntryEnd(entryNo) => peeked = End("entry")
           /\ OwnValues(cur, entryNo)
    /\ \A i \in 1..Len(out) : OwnValues(out[i].rec, out[i].no)

\* The doi of the first of two records is absent: next_doi has returned None
\* with the closing tag of the first record pushed back.
C4_Witness ==
    /\ Len(feed) = 2 /\ entryNo = 1 /\ "arxiv:doi" \notin feed[1].opt
    /\ calls # << >> /\ calls[Len(calls)] = [acc |-> "next_doi", res |-> "none"]
    /\ peeked = End("entry") /\ pos = EntryEnd(1)

\* The place of a field name in the allowed-field table.
TableIndex(name) == CHOOSE i \in 1..NumFields : ALLOWED_FIELDS[i] = name

\* C5: the record-as-map adapter offers keys in strictly increasing table
\* order, only names the target requested and the table holds, each at most
\* once and all of them by the end of the record, and the accessors are called
\* in the same order, for the keys offered, whatever order the target declares.
C5_KeysInTableOrder ==
    /\ \A i \in 1..Len(keys) : keys[i] \in FieldNames /\ Contains(fields, keys[i])
    /\ \A i, j \in 1..Len(keys) : i < j => TableIndex(keys[i]) < TableIndex(keys[j])
    /\ \A i \in 1..Len(out) : out[i].done => out[i].keys = InTableOrder(
           {n \in FieldNames : Contains(fields, n)})
    /\ \A i, j \in 1..Len(calls) :
           i < j => AccessorRank(calls[i].acc) <= AccessorRank(calls[j].acc)
    /\ \A i \in 1..Len(calls) : pc # "done" =>
           \E j \in 1..Len(keys) : keys[j] = ALLOWED_FIELDS[AccessorRank(calls[i].acc)]

\* A record decoded into a target whose fields are declared out of table
\* order, and that declares a name the table does not hold.
C5_Witness ==
    /\ fields = EntryTestQueryDe.fields /\ shape = "seq"
    /\ keys = <<"id", "title", "updated", "summary", "categories", "published">>
    /\ Len(calls) >= 4

\* The index in the input of the id tag of entry element e.
IdIndex(e) == EntryEnd(e - 1) + 2

\* The entry elements from e on that hold a summary tag.
WithSummary(e) ==
    {s \in e..Len(feed) : feed[s].id # "errbare" /\ "summary" \notin feed[s].miss}

\* C6: in every list-level shape, once next_id has read an id that starts with
\* the error prefix, the decode has failed, with the Arxiv error that carries
\* the text of the summary tag that follows the id (with InvalidError when no
\* summary tag follows), and the entry was not returned as a record, whatever
\* number of valid records comes before it.
C6_ErrorEntryFailsDecode ==
    \A e \in 1..Len(feed) :
        (feed[e].id \in {"err", "errbare"} /\ pos >= IdIndex(e)) =>
            /\ pc = "done"
            /\ result =
                   IF WithSummary(e) # {}
                   THEN Failed(Err("Arxiv", "", Val(
                            CHOOSE s \in WithSummary(e) : \A t \in WithSummary(e) : s <= t,
                            "summary", 1)))
                   ELSE Failed(Err("InvalidError", "summary", NoVal))
            /\ \A i \in 1..Len(out) : out[i].no # e

\* The error entry follows two valid records whose ids were read and ignored.
C6_Witness ==
    /\ shape = "ignore" /\ Len(feed) = 3 /\ feed[3].id = "err"
    /\ result = Failed(Err("Arxiv", "", Val(3, "summary", 1)))

\* C7: the record list decoded as an option is None for a feed of 0 records,
\* the record for a feed of exactly 1 record, and the error TrailingEntries for
\* a feed of 2 or more records.
C7_OptionByRecordCount ==
    (shape = "option" /\ pc = "done" /\ AllValid) =>
        CASE Len(feed) = 0 -> result = Ok /\ out = << >>
          [] Len(feed) = 1 -> result = Ok /\ Len(out) = 1 /\ out[1].no = 1
          [] OTHER -> result = Failed(TrailingEntries)

\* C8: the record list decoded as a sequence has one element per record of the
\* feed, in document order; a feed without entry elements decodes to an empty
\* sequence, an empty map and a None option, with no error.
C8_OneElementPerRecord ==
    /\ (shape = "seq" /\ pc = "done" /\ AllValid) =>
           /\ result = Ok
           /\ Len(out) = Len(feed)
           /\ \A i \in 1..Len(out) : out[i].done /\ out[i].no = i
    /\ (shape \in {"seq", "map", "option"} /\ pc = "done" /\ feed = << >>) =>
           result = Ok /\ out = << >>

\* C9: in map shape the identifier is the map key only: the value receives no
\* id, and a value type that requests the field id gets an error that is not
\* MissingTag, with no accessor called for it; in sequence (and option) shape
\* a record receives its id as the field id exactly when the target requests it.
C9_IdOnlyAsMapKey ==
    /\ shape = "map" =>
           /\ cur["id"] = << >>
           /\ \A i \in 1..Len(out) :
                  out[i].rec["id"] = << >> /\ out[i].key = Val(out[i].no, "id", 1)
           /\ (\E j \in 1..Len(keys) : keys[j] = "id") /\ pc # "entry_value" =>
                  /\ pc = "done"
                  /\ result = Failed(IdAlreadyKey)
                  /\ result.err.kind # "MissingTag"
                  /\ calls = << >>
                  /\ pos < NextFieldIndex(entryNo, 1)
    /\ shape \in {"seq", "option"} =>
           \A i \in 1..Len(out) : out[i].done =>
               out[i].rec["id"] = IF Contains(fields, "id")
                                  THEN <<Val(out[i].no, "id", 1)>> ELSE << >>

\* A map whose value type requests id: the decode has failed on the first value.
C9_Witness ==
    /\ shape = "map" /\ Contains(fields, "id") /\ Len(out) = 1
    /\ result = Failed(IdAlreadyKey)

\* C10: the same feed decoded as a sequence of records and then as a map from
\* identifier to the record without id gives the same outcome, and record by
\* record in document order the same identifier and the same value for every
\* field but id.
C10_SeqAndMapAgree ==
    (run = 2 /\ shape = "map" /\ pc = "done") =>
        /\ result = first.result
        /\ Len(SelectSeq(out, LAMBDA e : e.done)) = Len(first.out)
        /\ \A i \in 1..Len(first.out) :
               /\ out[i].no = first.out[i].no
               /\ out[i].key = Val(first.out[i].no, "id", 1)
               /\ first.out[i].rec["id"] \in {<< >>, <<out[i].key>>}
               /\ \A n \in FieldNames \ {"id"} : out[i].rec[n] = first.out[i].rec[n]

\* Two records decoded both ways, by a target that requests id and authors.
C10_Witness ==
    /\ run = 2 /\ shape = "map" /\ pc = "done" /\ result = Ok /\ Len(out) = 2
    /\ first.out[1].rec["id"] # << >>
    /\ first.out[2].rec["authors"] # << >>

\* The accessors of the mandatory tags of a record, and the event each looks for.
MandatoryAccessors ==
    {"next_title", "next_updated", "next_summary", "next_published",
     "next_primary_category"}

Sought(acc) ==
    CASE acc = "next_title" -> Tag("Start", "title")
      [] acc = "next_updated" -> Tag("Start", "updated")
      [] acc = "next_summary" -> Tag("Start", "summary")
      [] acc = "next_published" -> Tag("Start", "published")
      [] acc = "next_primary_category" -> Tag("Empty", "arxiv:primary_category")

\* The cursor is in the record the last next_id returned the id of.
CursorInRecord == entryNo > 0 /\ CursorIndex <= EntryEnd(entryNo)

\* The event `tag` lies between the cursor and the closing tag of the record.
Ahead(tag) == \E q \in CursorIndex..EntryEnd(entryNo) : Tag(xml[q].k, xml[q].n) = tag

\* C11: a mandatory accessor called with the cursor in the current record, when
\* the record's closing tag comes before the tag it looks for, returns
\* MissingTag naming that tag and leaves the closing tag pushed back; whatever
\* it returns, it does not pass the closing tag and its value is the record's own.
C11_MissingTagAtClosingTag ==
    [][\A acc \in MandatoryAccessors :
           (calls' # << >> /\ calls'[1].acc = acc /\ CursorInRecord) =>
               /\ ~Ahead(Sought(acc)) =>
                      /\ calls'[1].res = "err"
                      /\ calls'[1].err = MissingTag(Sought(acc).n)
                      /\ peeked' = End("entry")
                      /\ pos' = EntryEnd(entryNo)
               /\ Ahead(Sought(acc)) => calls'[1].res = "some"
               /\ calls'[1].res = "some" =>
                      calls'[1].v \in {NoVal, Val(entryNo, Sought(acc).n, 1)}
               /\ IF peeked' # NoEvent THEN pos' <= EntryEnd(entryNo)
                  ELSE pos' < EntryEnd(entryNo)]_vars

\* next_published on the first of two records, which lacks the published tag.
C11_Witness ==
    /\ Len(feed) = 2 /\ entryNo = 1 /\ "published" \in feed[1].miss
    /\ calls = <<[acc |-> "next_published", res |-> "err", v |-> NoVal,
                  err |-> MissingTag("published")]>>
    /\ peeked = End("entry") /\ pos = EntryEnd(1)

\* An accessor called for the current record has returned an error.
ErrorReturned == \E i \in 1..Len(calls) : calls[i].res = "err"

\* C12: once an accessor has returned an error inside a record (a mandatory
\* tag or the term attribute missing), or next_id has on an id of unexpected
\* format, no further call is made but the second next_id of the option shape,
\* and Response::from_xml returns an error, in sequence, map and option shape:
\* an Ok is returned only when no id or accessor call failed.
C12_AccessorErrorFailsDecode ==
    /\ ErrorReturned =>
           /\ pc \in {"opt_tail", "done"}
           /\ pc = "opt_tail" => val.st = "err"
           /\ pc = "done" => result.st = "err"
    /\ \A e \in 1..Len(feed) :
           (feed[e].id = "bad" /\ pos >= IdIndex(e)) =>
               /\ pc = "done"
               /\ result = Failed(Err("InvalidHeader", "id", Url(OtherPrefix, e)))
    /\ (pc = "done" /\ result = Ok) =>
           /\ ~ErrorReturned
           /\ \A e \in 1..Len(feed) : feed[e].id \in {"abs", "none"}

\* The second record lacks its title: the list has received the first record,
\* and from_xml has returned MissingTag.
C12_Witness ==
    /\ shape = "seq" /\ Len(feed) = 2 /\ "title" \in feed[2].miss /\ entryNo = 2
    /\ Len(out) = 1 /\ pc = "done" /\ result = Failed(MissingTag("title"))

\* The indices of the id tags in the unread input.
IdsAhead == {q \in CursorIndex..Len(xml) : Tag(xml[q].k, xml[q].n) = Tag("Start", "id")}

\* C13: next_id returns None exactly when no id tag remains in the unread
\* input, and then the cursor is at the end of the input, so that every later
\* next_id returns None; when an id tag remains, the first one decides: with
\* the article prefix the call returns its content without the prefix and
\* leaves the cursor right after its closing tag, with any other prefix the
\* call returns an error, never None.
C13_NextIdNoneOnlyAtEnd ==
    [][(calls' # << >> /\ calls'[1].acc = "next_id") =>
           IF IdsAhead = {}
           THEN /\ calls'[1].res = "none"
                /\ pos' = Len(xml) /\ peeked' = NoEvent
           ELSE LET q == CHOOSE q \in IdsAhead : \A q2 \in IdsAhead : q <= q2
                    url == xml[q].t
                IN  IF url.pre = AbsPrefix
                    THEN /\ calls'[1].res = "some"
                         /\ calls'[1].v = Val(url.r, "id", 1)
                         /\ pos' = q + 1 /\ xml[pos'] = End("id") /\ peeked' = NoEvent
                    ELSE /\ calls'[1].res = "err"
                         /\ calls'[1].err.kind =
                                IF url.pre # ErrorPrefix THEN "InvalidHeader"
                                ELSE IF WithSummary(url.r) # {} THEN "Arxiv"
                                ELSE "InvalidError"]_vars

\* After the ids of two records next_id has returned None, at the end of the input.
C13_Witness ==
    /\ Len(feed) = 2 /\ feed[2].id = "abs"
    /\ calls = <<[acc |-> "next_id", res |-> "none", v |-> NoneVal, err |-> NoErr]>>
    /\ pos = Len(xml) /\ peeked = NoEvent

\* The tag t appears in the input, in the header or in an entry.
Appears(t) == \E q \in 1..Len(xml) : Tag(xml[q].k, xml[q].n) = Tag("Start", t)

\* The text of a pagination tag of the header is a non-negative integer.
GoodTexts == {<<"7", "4", "3", "2">>, <<"0">>, <<"+", "1", "0">>}
BadText == \E t \in PaginationTags : t \notin head.miss /\ head.text[t] \notin GoodTexts

\* The Pagination of the header whose three texts are those of GoodHead.
HeaderPagination == Pagination(7432, 0, 10)

\* ResponseReader::init has returned Ok and no method was called since.
JustInitialized == pc = "client" /\ calls = << >>

AuthorEvent(n, a, k) ==
    LET S == {q \in (EntryEnd(n - 1) + 1)..EntryEnd(n) : Tag(xml[q].k, xml[q].n) = Tag(k, "author")}
    IN  CHOOSE q \in S : Cardinality({x \in S : x <= q}) = a

\* The cursor is in the a-th author element of the current record: next_author
\* has read its opening tag and no call has read its closing tag.
InAuthor(a) ==
    /\ entryNo > 0 /\ a \in 1..feed[entryNo].nauth
    /\ pos >= AuthorEvent(entryNo, a, "Start")
    /\ CursorIndex <= AuthorEvent(entryNo, a, "End")

\* The opening tag `name` lies between the cursor and the closing tag of author a.
AheadInAuthor(a, name) ==
    \E q \in CursorIndex..AuthorEvent(entryNo, a, "End") :
        Tag(xml[q].k, xml[q].n) = Tag("Start", name)

\* C15: with the cursor in the k-th author element, next_author_name and
\* next_author_affiliation do not consume the author's closing tag: the name
\* and the affiliation returned are those of author k, an author without
\* affiliation (or whose affiliation was read) yields None whatever the later
\* authors hold, however often the call is repeated, and the next_author call
\* that follows finds author k + 1 if the record holds one.
C15_AuthorCallsStayInAuthor ==
    [][\A a \in 1..MaxAuth :
           (calls' # << >> /\ InAuthor(a)) =>
               LET c == calls'[1]
                   end == AuthorEvent(entryNo, a, "End")
               IN  /\ c.acc \in {"next_author_name", "next_author_affiliation"} =>
                          /\ pos' <= end
                          /\ pos' = end => peeked' = End("author")
                          /\ c.res = "some" => c.v.r = entryNo /\ c.v.i = a
                   /\ c.acc = "next_author_name" =>
                          IF AheadInAuthor(a, "name")
                          THEN c.res = "some" /\ c.v = Val(entryNo, "name", a)
                          ELSE c.res = "err" /\ c.err = MissingTag("name")
                   /\ c.acc = "next_author_affiliation" =>
                          IF AheadInAuthor(a, "affiliation")
                          THEN c.res = "some" /\ c.v = Val(entryNo, "affiliation", a)
                          ELSE c.res = "none" /\ pos' = end
                   /\ c.acc = "next_author" =>
                          IF a < feed[entryNo].nauth
                          THEN c.res = "some" /\ pos' = AuthorEvent(entryNo, a + 1, "Start")
                          ELSE c.res = "none" /\ pos' <= EntryEnd(entryNo)]_vars

\* The first author of a record has no affiliation and the second has one:
\* next_author_affiliation has returned None at the first author's closing tag.
C15_Witness ==
    /\ entryNo = 1 /\ feed[1].nauth >= 2 /\ ~HasAffiliation(1) /\ HasAffiliation(2)
    /\ calls = <<[acc |-> "next_author_affiliation", res |-> "none", v |-> NoneVal,
                  err |-> NoErr]>>
    /\ peeked = End("author") /\ pos = AuthorEvent(1, 1, "End")

\* C16: when a client calls one and the same accessor repeatedly after next_id
\* has returned the id of a record, whatever the accessor and the number of
\* calls, the cursor does not pass the closing tag of that record, which stays
\* pushed back once it was read.
C16_SameMethodStaysInEntry ==
    (plan \in Accessors /\ entryNo > 0) =>
        /\ CursorIndex <= EntryEnd(entryNo)
        /\ pos = EntryEnd(entryNo) => peeked = End("entry")

\* The entry elements of the feed that hold an id tag, in document order.
WithId == SelectSeq([e \in 1..Len(feed) |-> e], LAMBDA e : feed[e].id # "none")

\* No value of the record `rec` is a text of entry element e.
NoValueOf(rec, e) ==
    \A f \in FieldNames : \A i \in 1..Len(rec[f]) : rec[f][i].r # e

\* C17: an entry element without id tag is skipped: it is never the current
\* record, no element or key of the list comes from it, no value of it is
\* delivered to the record before or after it, and it causes no error: a
\* decode that ends without error has returned one element for each entry
\* that holds an id, in document order, and reading the ids alone succeeds.
C17_EntryWithoutIdSkipped ==
    \A e \in 1..Len(feed) :
        feed[e].id = "none" =>
            /\ entryNo # e
            /\ NoValueOf(cur, e)
            /\ \A i \in 1..Len(out) :
                   out[i].no # e /\ out[i].key.r # e /\ NoValueOf(out[i].rec, e)
            /\ (pc = "done" /\ result.st = "err") =>
                   result.err.v.r # e /\ entryNo \in 1..Len(feed)
            /\ (pc = "done" /\ shape = "ignore") => result = Ok
            /\ (pc = "done" /\ shape \in {"seq", "map"} /\ result = Ok) =>
                   /\ Len(out) = Len(WithId)
                   /\ \A i \in 1..Len(out) : out[i].done /\ out[i].no = WithId[i]

\* The second of three entries holds no id: the sequence has two elements, the
\* second of them read from the third entry.
C17_Witness ==
    /\ Len(feed) = 3 /\ feed[2].id = "none" /\ shape = "seq" /\ run = 1
    /\ pc = "done" /\ result = Ok /\ Len(out) = 2 /\ out[2].no = 3
    /\ out[2].rec["title"] = <<Val(3, "title", 1)>>

\* The text v is the text (or, for an id, the URL without its prefix) of an
\* event among xml[from..to].
TextWithin(v, from, to) ==
    \E q \in from..to : xml[q].t # NoVal /\ [xml[q].t EXCEPT !.pre = ""] = v

\* C18: over any sequence of calls the tokenizer position never decreases, so
\* that each token is produced once; a pushed-back token is the last token
\* produced and is the first one the next call examines (a call that halts on
\* it produces nothing and leaves it pushed back; no other token is delivered
\* again), and a value returned is read from the tokens between
\* the cursor and the new position, never from the content an earlier call
\* has passed.
C18_ForwardOnly ==
    [][calls' # << >> =>
           LET c == calls'[1]
           IN  /\ pos' >= pos
               /\ peeked' # NoEvent => pos' >= 1 /\ peeked' = xml[pos']
               /\ pos' = pos => peeked' \in {peeked, NoEvent}
               /\ (peeked = End("entry") /\ c.acc # "next_id"
                   /\ c.acc \notin {"next_author_name", "next_author_affiliation"}) =>
                      pos' = pos /\ c.res # "some"
               /\ (peeked = End("author")
                   /\ c.acc \in {"next_author_name", "next_author_affiliation"}) =>
                      pos' = pos /\ c.res # "some"
               /\ (c.res = "some" /\ c.v # NoVal) => TextWithin(c.v, CursorIndex, pos')]_vars

\* The title of a complete record was passed by next_summary: next_title has
\* scanned on to the closing tag and not back.
C18_Witness ==
    /\ entryNo = 1 /\ feed[1] = FullRecord
    /\ calls = <<[acc |-> "next_title", res |-> "err", v |-> NoVal,
                  err |-> MissingTag("title")]>>
    /\ peeked = End("entry") /\ pos = EntryEnd(1)

\* The calls that take from the tokenizer, and all calls of the reader.
Pulls(c) == c.inner + c.text
ReadCount(c) == c.read + c.inner + c.text

Decode ==
    \/ SeqNextElement
    \/ MapNextKey
    \/ MapNextValue
    \/ DeserializeOption
    \/ OptionTail
    \/ DeserializeIgnoredAny
    \/ EntryNextKey
    \/ EntryNextValue
    \/ CategoryNextElement
    \/ AuthorNextElement
    \/ AuthorDeserializeStr
    \/ AuthorNextKey
    \/ AuthorNextValue

\* from_xml is a plain function call: nothing but its own return stops the
\* thread between two steps, hence the weak fairness of the steps.
SpecLive == Init /\ [][Decode]_vars /\ WF_vars(Decode)

\* C20: a decode of a finite token stream as a sequence, a map, an option or
\* with everything ignored returns; no step moves the tokenizer back or past
\* the end of the input, and the list-level loop returns at the step where
\* next_id gives None or an error.
C20_DecodeTerminates ==
    /\ <>(pc = "done")
    /\ [][/\ pos' \in pos..Len(xml)
          /\ (pc \in {"list", "opt_tail"} /\ NextId(pos, peeked).res # "some") =>
                 pc' = "done"]_vars

\* The loop of deserialize_ignored_any went through a feed of the largest
\* size and returned at the end of the input.
C20_Witness ==
    /\ shape = "ignore" /\ pc = "done" /\ result = Ok
    /\ Len(feed) = MaxEntries /\ pos = Len(xml) /\ peeked = NoEvent


\* C22: a record type that declares the fields of the documented Entry data
\* model is handed the author list under the key author and the category list
\* under the key category, in every record the decode completes.
C22_DocFieldsDelivered ==
    \A i \in 1..Len(out) :
        (fields = EntryDocComplete.fields /\ out[i].done) =>
            /\ feed[out[i].no].nauth > 0 => Contains(out[i].keys, "author")
            /\ feed[out[i].no].ncat > 0 => Contains(out[i].keys, "category")


\* ------------------------------------------------------- claims on ArticleId
\* The identifier was made of a string, or of parts.
FromText == ident.text # << >>
FromParts == ident.parts # NoParts

C23_ParsedMonthInRange ==
    (ident.op = "made" /\ FromText /\ ident.made.ok) => Month(ident.made.v) \in 1..12

\* The date of the old-style string math/YYMM001, when YYMM are digits: the year
\* the two digits stand for between 1991 and 2090, and the month.
OldStyleText ==
    /\ Len(ident.text) = 12 /\ SubSeq(ident.text, 1, 5) = Math \o <<"/">>
    /\ SubSeq(ident.text, 10, 12) = Padded(3, 1)
HasDigitDate == \A i \in 6..9 : IsDigit(ident.text[i])
TextYear ==
    LET yy == DigitsValue(SubSeq(ident.text, 6, 7))
    IN  IF yy >= 91 THEN 1900 + yy ELSE 2000 + yy
TextMonth == DigitsValue(SubSeq(ident.text, 8, 9))

\* C24: ArticleId::parse accepts math/YYMM001 exactly when the month is in
\* 1..12 and the date lies between August 1991 and March 2007.
C24_OldStyleDateRange ==
    (ident.op = "made" /\ OldStyleText /\ HasDigitDate) =>
        (ident.made.ok <=>
            /\ TextMonth \in 1..12
            /\ TextYear \in 1991..2007
            /\ TextYear = 1991 => TextMonth >= 8
            /\ TextYear = 2007 => TextMonth <= 3)

\* C25: the Display output of an identifier ArticleId::new made parses back to
\* the same identifier, and so does the conversion through Validated<String>.
C25_DisplayParsesBack ==
    (ident.op = "validated" /\ FromParts) =>
        /\ ident.res.parsed = IdOk(ident.made.v)
        /\ ident.res.v = ident.made.v

\* C26: ArticleId::deserialize(id.serialize()) is Some(id) for an identifier
\* ArticleId::parse or ArticleId::new made.
C26_SerializeRoundTrip ==
    ident.op = "serde" => ident.res = IdOk(ident.made.v)

\* C27: ArticleId::new of the parts of an identifier ArticleId::parse made
\* returns that identifier.
C27_NewOfParsedParts ==
    (ident.op = "renew" /\ FromText) => ident.res = IdOk(ident.made.v)

\* The lexicographic order of tuples of numbers of one length.
TupleLess(a, b) ==
    \E i \in 1..Len(a) : a[i] < b[i] /\ \A j \in 1..(i - 1) : a[j] = b[j]
FieldsOf(i) == <<Year(i), Month(i), ArchiveOf(i), Number(i), Version(i)>>
PartsOf(p) == <<p.year, p.month, p.archive, p.number, p.version>>

\* C28: an identifier is less than another one exactly when its (year, month,
\* archive, number, version) comes first in the lexicographic order, no archive
\* and no version counting as 0; for identifiers ArticleId::new made, the
\* order is that of the parts they were made of.  The order of the identifiers
\* is the order of the serialized u64.
C28_OrderIsFieldOrder ==
    ident.op = "cmp" =>
        /\ ident.res.less <=> TupleLess(FieldsOf(ident.made.v), FieldsOf(ident.res.other))
        /\ ident.res.greater <=> TupleLess(FieldsOf(ident.res.other), FieldsOf(ident.made.v))
        /\ FromParts =>
               (ident.res.less <=> TupleLess(PartsOf(ident.parts), PartsOf(ident.res.parts)))
        /\ ~(ident.res.less /\ ident.res.greater)
        /\ (~ident.res.less /\ ~ident.res.greater) <=> ident.made.v = ident.res.other

\* An old-style identifier of 2007 without version was found less than the
\* same with v1, and greater than a new-style one of a month before.
C28_Witness ==
    /\ ident.op = "cmp" /\ FromParts
    /\ \/ /\ ident.res.less
          /\ ident.parts = Parts(2007, 3, 21, 1, 0)
          /\ ident.res.parts = Parts(2007, 3, 21, 1, 1)
       \/ /\ ident.res.greater
          /\ ident.parts = Parts(2007, 3, 21, 1, 0)
          /\ ident.res.parts = Parts(2007, 3, 20, 2, 1)

\* The rules of the three identifier styles: the month, the range of dates
\* and the range of numbers.
ValidId(i) ==
    /\ Month(i) \in 1..12
    /\ Number(i) >= 1
    /\ IF ArchiveOf(i) # 0
       THEN /\ ArchiveOf(i) \in 1..34
            /\ Year(i) \in 1991..2007
            /\ Year(i) = 1991 => Month(i) >= 8
            /\ Year(i) = 2007 => Month(i) <= 3
            /\ Number(i) <= 999
       ELSE /\ Year(i) \in 2007..2107
            /\ Year(i) = 2007 => Month(i) >= 4
            /\ Year(i) = 2107 => Month(i) <= 3
            /\ Number(i) <= (IF Year(i) <= 2014 THEN 9999 ELSE 99999)

\* C29: formatted_len() of a valid identifier is the length of its Display
\* output, and is between 9 and MAX_ID_FORMATTED_LEN.
C29_FormattedLen ==
    (ident.op = "len" /\ ValidId(ident.made.v)) =>
        /\ ident.res.len = Len(ident.res.shown)
        /\ ident.res.len \in 9..MAX_ID_FORMATTED_LEN

\* The shortest and the longest identifier were measured.
C29_Witness ==
    /\ ident.op = "len" /\ ValidId(ident.made.v)
    /\ \/ ident.res.len = 9 /\ ident.parts = Parts(2014, 12, 0, 9999, 0)
       \/ ident.res.len = 22 /\ ident.parts = Parts(1992, 12, 34, 999, 65535)


\* ----------------------------------------------------------- claims on Query
\* C30: Query::paginate(start, max_results) with start > 30000 or
\* max_results > 2000 returns None and leaves every field of the query as it
\* was; otherwise it returns the query, whose pagination is (start,
\* max_results) and whose other fields are as they were.
C30_PaginateFrame ==
    [][query'.last.call = "paginate" =>
           LET start == query'.last.start
               max_results == query'.last.max_results
           IN  IF start > 30000 \/ max_results > 2000
               THEN /\ query'.last.ret = "None"
                    /\ query'.q = query.q
               ELSE /\ query'.last.ret = "Some"
                    /\ query'.q.pagination = Present(<<start, max_results>>)
                    /\ \A f \in {"search_query", "id_list", "sort", "http"} :
                           query'.q[f] = query.q[f]]_vars

\* A paginate beyond a limit returned None on a query that held a pagination,
\* a sort order, a search and an identifier list, and that still holds them.
C30_Witness ==
    /\ query.op = "query" /\ query.last.call = "paginate" /\ query.last.ret = "None"
    /\ query.last.start = 30001 /\ query.last.max_results = 10
    /\ query.q.pagination = Present(<<20, 10>>)
    /\ query.q.sort = Present(<<"SubmittedDate", "Ascending">>)
    /\ query.q.search_query # << >> /\ query.q.id_list # << >> /\ query.q.http


\* ------------------------------------------------------ claims on FieldGroup
\* The displayed group stands in parentheses.
InParentheses(s) == s[1] = "(" /\ s[Len(s)] = ")"

\* C31: a displayed FieldGroup stands in parentheses exactly when it combines
\* more than one component, fields and date ranges alike.
C31_ParenthesesIffCombined ==
    (query.op = "group" /\ query.shown # Absent) =>
        (InParentheses(query.shown[1]) <=> query.combined > 1)


\* ---------------------------------------------------------- claims on Reader
\* The tokens a call will be given, in their order: the pushed-back token if
\* there is one, then those the tokenizer has not produced.
Upcoming == (IF peeked # NoEvent THEN <<peeked>> ELSE << >>) \o SubSeq(xml, pos + 1, Len(xml))

\* The index in Upcoming of the first token one of the two closures accepts,
\* 0 if there is none.
FirstStop(m, h) ==
    LET stops == {i \in 1..Len(Upcoming) : Halts(h, Upcoming[i]) \/ Matches(m, Upcoming[i])}
    IN  IF stops = {} THEN 0 ELSE CHOOSE i \in stops : \A j \in stops : i <= j

\* The tokenizer position once the first n tokens of Upcoming were taken.
PosAfter(n) == pos + n - (IF peeked # NoEvent THEN 1 ELSE 0)

\* C32: find_before returns the first token the matcher accepts, if no token
\* before it and not that token itself is accepted by halt; it returns None
\* if a halt token or the end of the input comes first.  The tokens before
\* the one it stopped on are taken from the reader, the token returned too.
C32_FirstMatchBeforeHalt ==
    [][(calls' # << >> /\ calls'[1].op = "find_before") =>
           LET c == calls'[1]
               stop == FirstStop(c.m, c.h)
           IN  IF stop = 0
               THEN ~c.found /\ pos' = Len(xml)
               ELSE /\ pos' = PosAfter(stop)
                    /\ IF Halts(c.h, Upcoming[stop])
                       THEN ~c.found /\ c.ev = NoEvent
                       ELSE c.found /\ c.ev = Upcoming[stop] /\ peeked' = NoEvent]_vars

\* A scan returned None on a token that both of its closures accept.
C32_Witness ==
    /\ pc = "scan" /\ calls # << >> /\ calls[1].op = "find_before"
    /\ ~calls[1].found /\ peeked # NoEvent
    /\ Matches(calls[1].m, peeked) /\ Halts(calls[1].h, peeked)


\* C33: a scan that stops on a halt token keeps that token pushed back, and
\* the next call is given it before any other token: read returns it, and a
\* find_before whose matcher accepts it (and whose halt does not) returns it,
\* both without taking a token from the tokenizer.
C33_HaltTokenSeenNext ==
    [][calls' # << >> =>
           LET c == calls'[1]
               stop == FirstStop(c.m, c.h)
           IN  /\ (c.op = "find_before" /\ stop # 0 /\ Halts(c.h, Upcoming[stop])) =>
                      /\ peeked' = Upcoming[stop]
                      /\ SubSeq(xml, pos' + 1, Len(xml))
                             = SubSeq(Upcoming, stop + 1, Len(Upcoming))
               /\ (peeked # NoEvent /\ c.op = "read") =>
                      c.ev = peeked /\ pos' = pos /\ peeked' = NoEvent
               /\ (peeked # NoEvent /\ c.op = "find_before"
                   /\ Matches(c.m, peeked) /\ ~Halts(c.h, peeked)) =>
                      c.found /\ c.ev = peeked /\ pos' = pos /\ peeked' = NoEvent]_vars

\* The closing tag of an entry, on which a scan had halted, was found by the
\* scan after it, which took no token from the tokenizer.
C33_Witness ==
    /\ pc = "scan" /\ calls # << >> /\ calls[1].had = End("entry")
    /\ calls[1].found /\ calls[1].ev = calls[1].had
    /\ pos >= 1 /\ xml[pos] = calls[1].ev /\ peeked = NoEvent
    /\ calls[1].op = "find_before"

\* C34: the pushed-back token is one token, the last the tokenizer produced;
\* a call that begins with a token pushed back either halts on that token,
\* which stays where it is, or takes it before it looks at another one, so
\* that a halt token is stored only when no token is pushed back.
C34_SlotNeverOverwritten ==
    [][calls' # << >> =>
           LET c == calls'[1]
           IN  /\ peeked' # NoEvent => pos' >= 1 /\ peeked' = xml[pos']
               /\ (peeked # NoEvent /\ c.op = "find_before") =>
                      IF Halts(c.h, peeked)
                      THEN pos' = pos /\ peeked' = peeked /\ ~c.found
                      ELSE /\ Matches(c.m, peeked) => c.found /\ c.ev = peeked /\ pos' = pos
                           /\ ~Matches(c.m, peeked) =>
                                  /\ c.found => pos' > pos /\ c.ev = xml[pos']
                                  /\ peeked' # NoEvent => pos' > pos /\ peeked' # peeked]_vars

\* A scan that began with a token pushed back went past it and stopped on a
\* later halt token, which is now the token pushed back.
C34_Witness ==
    /\ pc = "scan" /\ calls # << >> /\ calls[1].op = "find_before"
    /\ calls[1].had # NoEvent /\ peeked # NoEvent /\ peeked # calls[1].had
    /\ ~Halts(calls[1].h, calls[1].had) /\ ~calls[1].found

====
